---------------------------- MODULE Spec2Model ----------------------------
(***************************************************************************)
(* A model of gx's module-proxy layer: the in-memory cache with per-entry  *)
(* expiry and a background sweep (internal/proxy/cache.go) and the proxy   *)
(* client that sits on it (internal/proxy/client.go); and of the builder   *)
(* of the dependency graph (internal/graph/builder.go).                    *)
(*                                                                         *)
(* Time is counted in minutes.  Goroutines that are inside an operation    *)
(* are kept as bags of records: goroutines carry no identity in the code.  *)
(***************************************************************************)
EXTENDS Integers, Sequences, FiniteSets, Bags, TLC

VARIABLES
    entries,   \* MemoryCache.entries: map key -> [value, expiration]
    mu,        \* MemoryCache.mu: [r |-> readers holding RLock, w |-> a writer holds Lock,
               \*                   p |-> the sweep waits in Lock]
    crit,      \* bag of the cache operations that are between their lock and unlock
    tickerC,   \* cleanup's ticker channel holds a tick (buffer of one)
    now,       \* the clock read by time.Now()
    ticks,     \* the number of times the clock has advanced
    sem,       \* Client.sem: the number of slots taken in the channel's buffer
    sendq,     \* Client.sem's queue of senders blocked in doRequest's select
    calls,     \* bag of the fetch calls that are past the select and have not returned
    work,      \* the requests (operation, module path, version) the callers make
    hist,      \* history: key -> the last Set of that key since the last Clear
    ev,        \* history: what the last step did and returned
    pureFn,    \* the pure function under study: "Versions", "escapePath" or none
    pureArg,   \* its argument, a string as the sequence of its code points
    pureRes,   \* its result, once it has been applied
    goMod,     \* the Require list of the go.mod behind the Parser, in file order
    gnodes,    \* the Nodes allocated by the build: node id -> Node
    gindex,    \* Graph.Nodes: key -> node id
    todo,      \* the requirements BuildWithProxy's loops have still to take
    stack,     \* the buildChildren calls in progress, the innermost last
    visited,   \* buildChildren's visited map, as the set of its keys
    registry,  \* what the registry has answered: key -> response
    ghist,     \* history: the buildChildren calls, fetches and attachments so far
    gev,       \* history: what the last step of the build did
    gpc,       \* "idle", or "run" during BuildWithProxy and "done" once it returned
    disk,      \* the content of the go.mod file on disk
    backupFile,\* the content of the Writer's backup file, or NoFile
    writer,    \* the Writer's fields
    parser,    \* the fields of the Parser the Writer holds
    wev,       \* history: what the last Writer operation did
    fetch      \* fetchPackages: its tasks, mutex, counter, channel and result

cacheVars == <<entries, mu, crit, tickerC, hist>>
clockVars == <<now, ticks>>
clientVars == <<sem, sendq, calls, work>>
pureVars == <<pureFn, pureArg, pureRes>>
graphVars == <<goMod, gnodes, gindex, todo, stack, visited, registry, ghist, gev, gpc>>
writerVars == <<disk, backupFile, writer, parser, wev>>
restVars == <<pureVars, graphVars, writerVars, fetch>>
vars == <<entries, mu, crit, tickerC, now, ticks, sem, sendq, calls, work, hist, ev,
          pureFn, pureArg, pureRes,
          goMod, gnodes, gindex, todo, stack, visited, registry, ghist, gev, gpc,
          disk, backupFile, writer, parser, wev, fetch>>

----------------------------------------------------------------------------
(* Bounds of the model *)

\* the clock advances at most MaxTicks times
MaxTicks == 2
\* the largest ttl a caller of Set passes; the smallest is -1
MaxTTL == 1
\* cache operations that can be inside Get/Set/Clear at the same time
MaxCacheOps == 2

\* the period of cleanup's ticker, in minutes
SweepInterval == 1

Keys == {"k1", "k2"}
Values == {"v1", "v2"}
TTLs == -1 .. MaxTTL

Nil == "nil"

----------------------------------------------------------------------------
(* MemoryCache *)

EmptyMap == << >>

\* n: the number of map entries the step removed
NoEvent == [kind |-> "init", key |-> "", value |-> Nil, found |-> FALSE, n |-> 0]

CacheOp(op, key, value, ttl) == [op |-> op, key |-> key, value |-> value, ttl |-> ttl]

AfterLate(t, expiration) == t > expiration + 1

\* time.Now().After(expiration)
After(t, expiration) == t > expiration

GetResultNoExpiry(m, key, t) ==
    IF key \in DOMAIN m THEN [value |-> m[key].value, found |-> TRUE]
    ELSE [value |-> Nil, found |-> FALSE]

\* the two results of Get's body: (entry.value, true) or (nil, false)
GetResult(m, key, t) ==
    IF key \notin DOMAIN m THEN [value |-> Nil, found |-> FALSE]
    ELSE IF After(t, m[key].expiration) THEN [value |-> Nil, found |-> FALSE]
    ELSE [value |-> m[key].value, found |-> TRUE]

SetResultKeepsExpiry(m, key, value, ttl, t) ==
    [k \in DOMAIN m \cup {key} |->
        IF k # key THEN m[k]
        ELSE IF key \in DOMAIN m
        THEN [value |-> value, expiration |-> m[key].expiration]
        ELSE [value |-> value, expiration |-> t + ttl]]

\* c.entries[key] = &cacheEntry{value, time.Now().Add(ttl)}
SetResult(m, key, value, ttl, t) ==
    [k \in DOMAIN m \cup {key} |->
        IF k = key THEN [value |-> value, expiration |-> t + ttl] ELSE m[k]]

ClearResultKeepsLive(m) == m

\* c.entries = make(map[string]*cacheEntry)
ClearResult(m) == EmptyMap

SweepResultEager(m, t) ==
    [k \in {x \in DOMAIN m : t < m[x].expiration} |-> m[k]]

\* one pass of cleanup's loop body: delete every entry with now.After(expiration)
SweepResult(m, t) ==
    [k \in {x \in DOMAIN m : ~After(t, m[x].expiration)} |-> m[k]]

CanRLockPastWaiter == ~mu.w

\* sync.RWMutex: RLock blocks while a writer holds the lock or waits in Lock
CanRLock == ~mu.w /\ ~mu.p
CanLockAmongReaders == ~mu.w

\* c.mu.Lock() can be taken: no writer and no reader holds the lock
CanLock == ~mu.w /\ mu.r = 0 /\ ~mu.p

CacheInit ==
    /\ entries = EmptyMap
    /\ mu = [r |-> 0, w |-> FALSE, p |-> FALSE]
    /\ crit = EmptyBag
    /\ tickerC = FALSE
    /\ now = 0
    /\ ticks = 0
    /\ hist = EmptyMap
    /\ ev = NoEvent

\* Get: c.mu.RLock()
GetLock(key) ==
    /\ BagCardinality(crit) < MaxCacheOps
    /\ CanRLock
    /\ mu' = [mu EXCEPT !.r = @ + 1]
    /\ crit' = crit (+) SetToBag({CacheOp("Get", key, Nil, 0)})
    /\ ev' = [NoEvent EXCEPT !.kind = "lock"]
    /\ UNCHANGED <<entries, tickerC, hist, clockVars, clientVars, restVars>>

\* Get: the lookup, the expiry test, the deferred RUnlock and the return
GetBody(o) ==
    /\ o.op = "Get"
    /\ BagIn(o, crit)
    /\ LET r == GetResult(entries, o.key, now) IN
       ev' = [kind |-> "Get", key |-> o.key, value |-> r.value, found |-> r.found,
              n |-> 0]
    /\ mu' = [mu EXCEPT !.r = @ - 1]
    /\ crit' = crit (-) SetToBag({o})
    /\ UNCHANGED <<entries, tickerC, hist, clockVars, clientVars, restVars>>

\* Set: c.mu.Lock()
SetLock(key, value, ttl) ==
    /\ BagCardinality(crit) < MaxCacheOps
    /\ CanLock
    /\ mu' = [mu EXCEPT !.w = TRUE]
    /\ crit' = crit (+) SetToBag({CacheOp("Set", key, value, ttl)})
    /\ ev' = [NoEvent EXCEPT !.kind = "lock"]
    /\ UNCHANGED <<entries, tickerC, hist, clockVars, clientVars, restVars>>

\* the record kept of a Set: what it wrote, when, and what it overwrote
HistSet(key, value, ttl) ==
    [k \in DOMAIN hist \cup {key} |->
        IF k = key
        THEN [live |-> TRUE, value |-> value, at |-> now, ttl |-> ttl,
              prev |-> IF key \in DOMAIN entries THEN entries[key].expiration
                       ELSE now + ttl]
        ELSE hist[k]]

\* the record kept of a Clear: every key Set so far is marked as cleared
HistClear ==
    [k \in DOMAIN hist |->
        [live |-> FALSE, value |-> Nil, at |-> 0, ttl |-> 0, prev |-> 0]]

\* Set: the store, the deferred Unlock and the return
SetBody(o) ==
    /\ o.op = "Set"
    /\ BagIn(o, crit)
    /\ entries' = SetResult(entries, o.key, o.value, o.ttl, now)
    /\ hist' = HistSet(o.key, o.value, o.ttl)
    /\ ev' = [NoEvent EXCEPT !.kind = "Set", !.key = o.key]
    /\ mu' = [mu EXCEPT !.w = FALSE]
    /\ crit' = crit (-) SetToBag({o})
    /\ UNCHANGED <<tickerC, clockVars, clientVars, restVars>>

\* Clear: c.mu.Lock()
ClearLock ==
    /\ BagCardinality(crit) < MaxCacheOps
    /\ CanLock
    /\ mu' = [mu EXCEPT !.w = TRUE]
    /\ crit' = crit (+) SetToBag({CacheOp("Clear", "", Nil, 0)})
    /\ ev' = [NoEvent EXCEPT !.kind = "lock"]
    /\ UNCHANGED <<entries, tickerC, hist, clockVars, clientVars, restVars>>

\* Clear: the new map, the deferred Unlock and the return
ClearBody(o) ==
    /\ o.op = "Clear"
    /\ BagIn(o, crit)
    /\ entries' = ClearResult(entries)
    /\ hist' = HistClear
    /\ ev' = [NoEvent EXCEPT !.kind = "Clear",
                             !.n = Cardinality(DOMAIN entries)]
    /\ mu' = [mu EXCEPT !.w = FALSE]
    /\ crit' = crit (-) SetToBag({o})
    /\ UNCHANGED <<tickerC, clockVars, clientVars, restVars>>

\* cleanup: a tick is received from ticker.C, then c.mu.Lock()
CleanupLock ==
    /\ tickerC
    /\ CanLock
    /\ tickerC' = FALSE
    /\ mu' = [mu EXCEPT !.w = TRUE]
    /\ crit' = crit (+) SetToBag({CacheOp("cleanup", "", Nil, 0)})
    /\ ev' = [NoEvent EXCEPT !.kind = "lock"]
    /\ UNCHANGED <<entries, hist, clockVars, clientVars, restVars>>

\* cleanup: one pass over the map, then c.mu.Unlock()
CleanupBody(o) ==
    /\ o.op = "cleanup"
    /\ BagIn(o, crit)
    /\ entries' = SweepResult(entries, now)
    /\ hist' = hist
    /\ ev' = [NoEvent EXCEPT !.kind = "sweep",
                             !.n = Cardinality(DOMAIN entries)
                                   - Cardinality(DOMAIN SweepResult(entries, now))]
    /\ mu' = [mu EXCEPT !.w = FALSE]
    /\ crit' = crit (-) SetToBag({o})
    /\ UNCHANGED <<tickerC, clockVars, clientVars, restVars>>

\* d minutes pass; the ticker, whose channel holds one tick, fires
Elapse(d) ==
    /\ ticks < MaxTicks
    /\ ticks' = ticks + 1
    /\ now' = now + d
    /\ tickerC' = (tickerC \/ d >= SweepInterval)
    /\ ev' = [NoEvent EXCEPT !.kind = "tick"]
    /\ UNCHANGED <<entries, mu, crit, hist, clientVars, restVars>>

CacheBody ==
    \E o \in BagToSet(crit) :
        \/ GetBody(o)
        \/ SetBody(o)
        \/ ClearBody(o)
        \/ CleanupBody(o)

ClientIdle ==
    /\ sem = 0
    /\ sendq = << >>
    /\ calls = EmptyBag

\* the result of a function that has not been applied
NoResult == [done |-> FALSE, out |-> << >>]

\* no pure function is under study
PureIdle ==
    /\ pureFn = ""
    /\ pureArg = << >>
    /\ pureRes = NoResult

NoBuildEvent ==
    [kind |-> "", node |-> 0, depth |-> 0, key |-> "", fetched |-> FALSE, attached |-> 0]

NoBuildHistory == [calls |-> 0, fetches |-> << >>, depths |-> << >>, attachers |-> << >>]

\* no graph is being built
GraphIdle ==
    /\ goMod = << >>
    /\ gnodes = << >>
    /\ gindex = << >>
    /\ todo = [direct |-> << >>, indirect |-> << >>]
    /\ stack = << >>
    /\ visited = {}
    /\ registry = << >>
    /\ ghist = NoBuildHistory
    /\ gev = NoBuildEvent
    /\ gpc = "idle"

\* in place of the lines of a file, when the file does not exist
NoFile == <<"no file">>

NoWriterEvent == [op |-> "", err |-> "", before |-> NoFile]

\* no Writer is in use
WriterIdle ==
    /\ disk = NoFile
    /\ backupFile = NoFile
    /\ writer = [backupMade |-> FALSE]
    /\ parser = [file |-> << >>, data |-> << >>]
    /\ wev = NoWriterEvent

\* fetchPackages has not been called
NoFetch == [pc |-> "idle"]

FetchIdle == fetch = NoFetch

RestIdle == PureIdle /\ GraphIdle /\ WriterIdle /\ FetchIdle

\* NewMemoryCache, used through its Get, Set and Clear alone
Init == CacheInit /\ ClientIdle /\ work = {} /\ RestIdle

Next ==
    \/ \E k \in Keys : GetLock(k)
    \/ \E k \in Keys, v \in Values, ttl \in TTLs : SetLock(k, v, ttl)
    \/ ClearLock
    \/ CleanupLock
    \/ CacheBody
    \/ Elapse(SweepInterval)

Spec == Init /\ [][Next]_vars

\* the sweep under fair scheduling.  Time is counted from the present, so that
\* it can pass for ever: now stays and every expiry and recorded instant moves
\* back, down to LongAgo, from where on an entry is expired by whatever amount
LongAgo == 0 - SweepInterval

Back(t) == IF t - SweepInterval < LongAgo THEN LongAgo ELSE t - SweepInterval

\* SweepInterval passes and the ticker, whose channel holds one tick, fires
Pass ==
    /\ entries' = [k \in DOMAIN entries |-> [entries[k] EXCEPT !.expiration = Back(@)]]
    /\ hist' = [k \in DOMAIN hist |-> [hist[k] EXCEPT !.at = Back(@), !.prev = Back(@)]]
    /\ tickerC' = TRUE
    /\ ev' = [NoEvent EXCEPT !.kind = "tick"]
    /\ UNCHANGED <<mu, crit, clockVars, clientVars, restVars>>

\* cleanup receives the tick and calls c.mu.Lock(): from then on RLock and
\* Lock calls of others block
CleanupAnnounce ==
    /\ tickerC /\ ~mu.p
    /\ \A o \in BagToSet(crit) : o.op # "cleanup"
    /\ tickerC' = FALSE
    /\ mu' = [mu EXCEPT !.p = TRUE]
    /\ ev' = [NoEvent EXCEPT !.kind = "wait"]
    /\ UNCHANGED <<entries, crit, hist, clockVars, clientVars, restVars>>

\* cleanup's Lock returns once the operations that were inside have left
CleanupAcquire ==
    /\ mu.p /\ ~mu.w /\ mu.r = 0
    /\ mu' = [mu EXCEPT !.p = FALSE, !.w = TRUE]
    /\ crit' = crit (+) SetToBag({CacheOp("cleanup", "", Nil, 0)})
    /\ ev' = [NoEvent EXCEPT !.kind = "lock"]
    /\ UNCHANGED <<entries, tickerC, hist, clockVars, clientVars, restVars>>

\* the calls are those of Next; one value is Set, since no step of the sweep
\* looks at the value of an entry
NextSweep ==
    \/ \E k \in Keys : GetLock(k)
    \/ \E k \in Keys, ttl \in TTLs : SetLock(k, "v1", ttl)
    \/ ClearLock
    \/ CleanupAnnounce
    \/ CleanupAcquire
    \/ CacheBody
    \/ Pass

\* the clock runs, the cleanup goroutine is scheduled when a tick waits for
\* it, a Lock that has been called is granted once the lock is free, and an
\* operation inside its critical section finishes
SpecSweep ==
    /\ Init /\ [][NextSweep]_vars
    /\ WF_vars(Pass) /\ WF_vars(CleanupAnnounce) /\ WF_vars(CleanupAcquire)
    /\ WF_vars(CacheBody)

----------------------------------------------------------------------------
(* Client *)

\* the capacity of Client.sem
defaultMaxConcurrent == 10
\* the ttl, in minutes, that Latest and Versions pass to cache.Set
ShortTTL == 5
\* the ttl, in minutes, that Info and GetModFile pass to cache.Set
LongTTL == 60

\* fetch calls that can be inside the client at the same time, under SpecClient
MaxClientCalls == 2
\* fetch calls that can be inside the client at the same time, under SpecGate
MaxGateCalls == 11

Ops == {"Latest", "Versions", "Info", "GetModFile"}
\* "%zz" is a module path whose request URL does not parse
Paths == {"m", "%zz"}
Versions == {"v1"}
\* response bodies: "bad" is not JSON
Bodies == {"b1", "b2", "bad"}

Request(op, path, ver) == [op |-> op, path |-> path, ver |-> ver]
\* Latest and Versions take no version
Requests ==
    {Request(op, p, "") : op \in {"Latest", "Versions"}, p \in Paths}
    \cup {Request(op, p, v) : op \in {"Info", "GetModFile"}, p \in Paths, v \in Versions}

\* cacheKey of the four operations
CacheKey(q) ==
    CASE q.op = "Latest" -> q.path \o "@latest"
      [] q.op = "Versions" -> q.path \o "@list"
      [] q.op = "Info" -> q.path \o "@" \o q.ver
      [] q.op = "GetModFile" -> q.path \o "@" \o q.ver \o ".mod"

\* the dynamic type of the value an operation stores and asserts on a hit
TypeOf(op) ==
    CASE op \in {"Latest", "Info"} -> "*VersionInfo"
      [] op = "Versions" -> "[]string"
      [] op = "GetModFile" -> "[]byte"

TTLOfSwapped(op) == IF op \in {"Latest", "Versions"} THEN LongTTL ELSE ShortTTL

\* the ttl an operation passes to cache.Set
TTLOf(op) == IF op \in {"Latest", "Versions"} THEN ShortTTL ELSE LongTTL

NilValue == [type |-> "nil", data |-> ""]

\* json.Unmarshal(body, &info) succeeds
ValidJSON(body) == body # "bad"

\* what an operation makes of a response body: the value, or a decoding error
Decode(op, body) ==
    IF op \in {"Latest", "Info"} /\ ~ValidJSON(body)
    THEN [err |-> "decode", value |-> NilValue]
    ELSE [err |-> "", value |-> [type |-> TypeOf(op), data |-> body]]

\* http.StatusOK
StatusOK == 200
\* the status codes the registry answers with
StatusCodes == {StatusOK, 201, 404}
\* the body of an error response, and what io.ReadAll returns of it when the
\* read breaks off
ErrorBody == "nf"
ErrorBodyCut == "n"

\* http.NewRequestWithContext parses the URL built from the module path
ValidURL(path) == path # "%zz"

\* c.http.Do fails: no response
DoFailed == [kind |-> "fetching", code |-> 0, body |-> "", got |-> ""]

\* doRequest after c.http.Do returned a response with this status code and
\* body, of which io.ReadAll returned got: a status other than StatusOK is an
\* error, whatever the read of the body came to; a body of a StatusOK
\* response that was not read to its end is an error
DoRequestResult(code, body, got) ==
    [kind |-> IF code # StatusOK THEN "status" ELSE IF got # body THEN "read" ELSE "ok",
     code |-> code, body |-> body, got |-> got]

\* what c.http.Do and the reads of the body can come to for a request that was sent
Outcomes ==
    {DoFailed}
    \cup {DoRequestResult(c, ErrorBody, g) :
              c \in StatusCodes \ {StatusOK}, g \in {ErrorBody, ErrorBodyCut}}
    \cup {DoRequestResult(StatusOK, "b1", "")}
    \cup {DoRequestResult(StatusOK, b, b) : b \in Bodies}

NoText == [fmt |-> "", code |-> 0, body |-> ""]

ErrorTextNoCode(o) ==
    IF o.kind = "status"
    THEN [fmt |-> "proxy returned %d: %s", code |-> 0, body |-> o.got]
    ELSE NoText

\* fmt.Errorf("proxy returned %d: %s", resp.StatusCode, string(body)): the
\* text of the error, as its format and the two values printed into it
ErrorText(o) ==
    IF o.kind = "status"
    THEN [fmt |-> "proxy returned %d: %s", code |-> o.code, body |-> o.got]
    ELSE NoText

\* a fetch call in progress: pc is "parked" (blocked in the select), "woken"
\* (the select's ctx.Done case fired), "admitted" (holds a slot, request not
\* sent) or "inflight" (inside c.http.Do); done: its context is cancelled
Call(q, pc, done) == [op |-> q.op, path |-> q.path, ver |-> q.ver, pc |-> pc, done |-> done]

ReqOf(c) == Request(c.op, c.path, c.ver)

\* what a step of a fetch call did: pc and done, where the step left the call
\* and whether its context is cancelled; ret, the call returned (val, err);
\* hit, it was served from the cache; reqs, the HTTP requests the call has
\* sent; resp, the response it got; text, the text of a status error
CallEvent(kind, c, ret, val, err, hit, reqs) ==
    [kind |-> kind, op |-> c.op, path |-> c.path, ver |-> c.ver, pc |-> c.pc,
     done |-> c.done, ret |-> ret, val |-> val, err |-> err, hit |-> hit,
     reqs |-> reqs, resp |-> DoFailed, text |-> NoText]

Active == BagCardinality(calls) + Len(sendq)

SentTwice(pc) == IF pc = "inflight" THEN 2 ELSE 0

\* the HTTP requests a call at this point has sent: the one c.http.Do of
\* doRequest, once the call is inside it
Sent(pc) == IF pc = "inflight" THEN 1 ELSE 0

WithPc(pc) == {c \in BagToSet(calls) : c.pc = pc}

\* the number of calls in the bag with this pc
CountPc(pc) == BagCardinality([c \in WithPc(pc) |-> calls[c]])

InFlight == CountPc("inflight")

SendReadyOneMore == sem <= defaultMaxConcurrent

\* the select's send case can proceed: the buffer of c.sem has room
SendReady == sem < defaultMaxConcurrent

DoneReadyNever(done) == FALSE

\* the select's receive case can proceed: ctx.Done() is closed
DoneReady(done) == done

\* the cache lookup that opens each operation, with its type assertion
Hit(m, q, t) ==
    LET r == GetResult(m, CacheKey(q), t) IN
    r.found /\ r.value.type = TypeOf(q.op)

\* the cache is consulted; on a hit the call returns the cached value
CallHit(q, done) ==
    /\ CanRLock
    /\ Hit(entries, q, now)
    /\ ev' = CallEvent("Call", Call(q, "", done), TRUE,
                       GetResult(entries, CacheKey(q), now).value, "", TRUE, 0)
    /\ UNCHANGED <<cacheVars, clockVars, clientVars, restVars>>

\* on a miss, doRequest's select takes a slot
CallAdmitted(q, done) ==
    /\ CanRLock
    /\ ~Hit(entries, q, now)
    /\ SendReady
    /\ sem' = sem + 1
    /\ calls' = calls (+) SetToBag({Call(q, "admitted", done)})
    /\ ev' = CallEvent("Call", Call(q, "admitted", done), FALSE, NilValue, "", FALSE, 0)
    /\ UNCHANGED <<cacheVars, clockVars, sendq, work, restVars>>

\* on a miss, doRequest's select finds the context cancelled: return nil,
\* ctx.Err(); with a free slot as well the select takes either case
CallCancelled(q, done) ==
    /\ CanRLock
    /\ ~Hit(entries, q, now)
    /\ DoneReady(done)
    /\ ev' = CallEvent("Call", Call(q, "", done), TRUE, NilValue, "canceled", FALSE, 0)
    /\ UNCHANGED <<cacheVars, clockVars, clientVars, restVars>>

\* on a miss, neither case of doRequest's select can proceed: the call blocks
CallParked(q, done) ==
    /\ CanRLock
    /\ ~Hit(entries, q, now)
    /\ ~SendReady /\ ~DoneReady(done)
    /\ sendq' = Append(sendq, Call(q, "parked", done))
    /\ ev' = CallEvent("Call", Call(q, "parked", done), FALSE, NilValue, "", FALSE, 0)
    /\ UNCHANGED <<cacheVars, clockVars, sem, calls, work, restVars>>

\* Latest, Versions, Info or GetModFile is called, up to its return or its
\* first blocking point
StartCall(limit) ==
    /\ Active < limit
    /\ \E q \in work, done \in BOOLEAN :
        \/ CallHit(q, done)
        \/ CallAdmitted(q, done)
        \/ CallCancelled(q, done)
        \/ CallParked(q, done)

RemoveAt(q, i) == SubSeq(q, 1, i - 1) \o SubSeq(q, i + 1, Len(q))

SelectDoneProceeds(c) == [c EXCEPT !.pc = "admitted", !.done = TRUE]

\* a call whose select was woken by ctx.Done: it takes the case that returns
SelectDone(c) == [c EXCEPT !.pc = "woken", !.done = TRUE]

\* the context of a call blocked in the select is cancelled: the close of
\* ctx.Done wakes the call with that case chosen and takes it off c.sem's queue
CancelParked ==
    \E i \in 1 .. Len(sendq) :
        /\ sendq' = RemoveAt(sendq, i)
        /\ calls' = calls (+) SetToBag({SelectDone(sendq[i])})
        /\ ev' = CallEvent("Cancel", SelectDone(sendq[i]), FALSE, NilValue, "", FALSE, 0)
        /\ UNCHANGED <<cacheVars, clockVars, sem, work, restVars>>

\* the context of a call that holds a slot is cancelled
CancelAdmitted ==
    \E c \in BagToSet(calls) :
        /\ ~c.done
        /\ calls' = (calls (-) SetToBag({c})) (+) SetToBag({[c EXCEPT !.done = TRUE]})
        /\ ev' = CallEvent("Cancel", [c EXCEPT !.done = TRUE], FALSE, NilValue, "", FALSE,
                           Sent(c.pc))
        /\ UNCHANGED <<cacheVars, clockVars, sem, sendq, work, restVars>>

\* what a call woken by ctx.Done returns: nil, ctx.Err()
WokenReturn(c) == CallEvent("Woken", [c EXCEPT !.pc = ""], TRUE, NilValue, "canceled", FALSE, 0)

\* doRequest's select returns through its ctx.Done case
ReturnCancelled ==
    \E c \in WithPc("woken") :
        /\ calls' = calls (-) SetToBag({c})
        /\ ev' = WokenReturn(c)
        /\ UNCHANGED <<cacheVars, clockVars, sem, sendq, work, restVars>>

ReleaseSemLeaks == sem

\* the deferred <-c.sem: a receive from the full buffer hands the place to the
\* first sender blocked on the channel, if there is one, and wakes it
ReleaseSem == IF sendq = << >> THEN sem - 1 ELSE sem

ReleaseQueueKeeps == sendq

ReleaseQueue == IF sendq = << >> THEN sendq ELSE Tail(sendq)

ReleaseCalls(rest) ==
    IF sendq = << >> THEN rest
    ELSE rest (+) SetToBag({[Head(sendq) EXCEPT !.pc = "admitted"]})

\* the request is built and c.http.Do starts; a URL that does not parse fails
\* the call before c.http.Do; net/http's transport sends nothing for a context
\* that is already cancelled and returns its error
SendRequest ==
    \E c \in WithPc("admitted") :
        \/ /\ ~ValidURL(c.path)
           /\ calls' = ReleaseCalls(calls (-) SetToBag({c}))
           /\ sem' = ReleaseSem
           /\ sendq' = ReleaseQueue
           /\ ev' = CallEvent("Send", [c EXCEPT !.pc = ""], TRUE, NilValue, "creating",
                              FALSE, Sent(c.pc))
           /\ UNCHANGED <<cacheVars, clockVars, work, restVars>>
        \/ /\ ValidURL(c.path)
           /\ ~c.done
           /\ calls' = (calls (-) SetToBag({c})) (+) SetToBag({[c EXCEPT !.pc = "inflight"]})
           /\ ev' = CallEvent("Send", [c EXCEPT !.pc = "inflight"], FALSE, NilValue, "",
                              FALSE, Sent("inflight"))
           /\ UNCHANGED <<cacheVars, clockVars, sem, sendq, work, restVars>>
        \/ /\ ValidURL(c.path)
           /\ c.done
           /\ calls' = ReleaseCalls(calls (-) SetToBag({c}))
           /\ sem' = ReleaseSem
           /\ sendq' = ReleaseQueue
           /\ ev' = CallEvent("Send", [c EXCEPT !.pc = ""], TRUE, NilValue, "fetching",
                              FALSE, Sent(c.pc))
           /\ UNCHANGED <<cacheVars, clockVars, work, restVars>>

StoresUndecoded(op, o) == o.kind = "ok"

StoresUnlessJSON(op, o) == o.kind = "ok" /\ op \notin {"Latest", "Info"}

\* the operation reaches its cache.Set: the fetch succeeded and the body decoded
Stores(op, o) == o.kind = "ok" /\ Decode(op, o.body).err = ""

ResultOfShared(op, o) ==
    IF o.kind = "ok" /\ (\E q \in work : CacheKey(q) \in DOMAIN entries)
    THEN [err |-> "", value |-> entries[CacheKey(CHOOSE q \in work : TRUE)].value]
    ELSE IF o.kind = "ok" THEN Decode(op, o.body) ELSE [err |-> o.kind, value |-> NilValue]

\* what the operation returns for an outcome of its request
ResultOf(op, o) ==
    IF o.kind = "ok" THEN Decode(op, o.body) ELSE [err |-> o.kind, value |-> NilValue]

\* c.http.Do returns; doRequest releases the slot and returns; the operation
\* decodes the body, stores the value in the cache and returns it
Respond(outcomes) ==
    \E c \in WithPc("inflight"), o \in outcomes :
        LET q == ReqOf(c)
            r == ResultOf(c.op, o)
            v == [type |-> TypeOf(c.op), data |-> o.body]
        IN
        /\ calls' = ReleaseCalls(calls (-) SetToBag({c}))
        /\ sem' = ReleaseSem
        /\ sendq' = ReleaseQueue
        /\ IF Stores(c.op, o)
           THEN /\ CanLock
                /\ entries' = SetResult(entries, CacheKey(q), v, TTLOf(c.op), now)
                /\ hist' = HistSet(CacheKey(q), v, TTLOf(c.op))
           ELSE UNCHANGED <<entries, hist>>
        /\ ev' = [CallEvent("Respond", [c EXCEPT !.pc = ""], TRUE, r.value, r.err, FALSE,
                            Sent(c.pc))
                  EXCEPT !.resp = o, !.text = ErrorText(o)]
        /\ UNCHANGED <<mu, crit, tickerC, clockVars, work, restVars>>

\* NewClient: an empty cache, an empty semaphore, no call in progress
ClientInit == CacheInit /\ ClientIdle /\ RestIdle /\ \E q \in Requests : work = {q}

\* the amounts of time that pass between two steps
ElapseSteps == {SweepInterval, ShortTTL, LongTTL}

CleanupBodyStep == \E o \in BagToSet(crit) : CleanupBody(o)

\* with fewer callers than slots no call blocks in the select
NextClient ==
    \/ StartCall(MaxClientCalls)
    \/ CancelAdmitted
    \/ SendRequest
    \/ Respond(Outcomes)
    \/ CleanupLock
    \/ CleanupBodyStep
    \/ \E d \in ElapseSteps : Elapse(d)

SpecClient == ClientInit /\ [][NextClient]_vars

\* more callers than slots, at one instant of the clock
NextGate ==
    \/ StartCall(MaxGateCalls)
    \/ CancelParked
    \/ CancelAdmitted
    \/ ReturnCancelled
    \/ SendRequest
    \/ Respond(Outcomes)

SpecGate == ClientInit /\ [][NextGate]_vars

\* the gate under calls of Latest, with fair scheduling: a call that holds a
\* slot goes on to its request, c.http.Do returns (the client's timeout bounds
\* it), and a call woken by its context returns
GateLiveInit ==
    /\ CacheInit /\ ClientIdle /\ RestIdle
    /\ \E p \in Paths : work = {Request("Latest", p, "")}

SpecGateLive ==
    GateLiveInit /\ [][NextGate]_vars
    /\ WF_vars(SendRequest) /\ WF_vars(Respond(Outcomes)) /\ WF_vars(ReturnCancelled)

\* version strings that make the cache keys of two operations equal
KeyVersions == {"v1", "latest", "list", "v1.mod"}

KeyRequests ==
    {Request(op, "m", "") : op \in {"Latest", "Versions"}}
    \cup {Request(op, "m", v) : op \in {"Info", "GetModFile"}, v \in KeyVersions}

\* one client and its cache serve calls of two requests
KeysInit ==
    /\ CacheInit /\ ClientIdle /\ RestIdle
    /\ \E q1, q2 \in KeyRequests : work = {q1, q2}

NextKeys ==
    \/ StartCall(MaxClientCalls)
    \/ SendRequest
    \/ Respond(Outcomes)

SpecKeys == KeysInit /\ [][NextKeys]_vars

----------------------------------------------------------------------------
(* The client's pure functions: strings are sequences of code points *)

\* the longest response body given to Versions
MaxBodyLen == 4
\* the longest module path given to escapePath
MaxPathLen == 3

\* 'v', ' ' and '\n'
BodyRunes == {118, 32, 10}
\* 'A', 'a', '/', U+00C9 (upper-case E acute), U+00E9 (lower-case e acute), U+4E16
PathRunes == {65, 97, 47, 201, 233, 19990}

SeqsUpTo(S, n) == UNION {[1 .. k -> S] : k \in 0 .. n}

\* unicode.IsSpace, on the code points up to U+00FF
IsSpace(r) == r \in {9, 10, 11, 12, 13, 32, 133, 160}

RECURSIVE TrimLeft(_)
\* strings.TrimSpace: the leading white space goes
TrimLeft(s) == IF s # << >> /\ IsSpace(Head(s)) THEN TrimLeft(Tail(s)) ELSE s

RECURSIVE TrimRight(_)
\* strings.TrimSpace: the trailing white space goes
TrimRight(s) ==
    IF s # << >> /\ IsSpace(s[Len(s)]) THEN TrimRight(SubSeq(s, 1, Len(s) - 1)) ELSE s

TrimSpaceLeftOnly(s) == TrimLeft(s)

\* strings.TrimSpace
TrimSpace(s) == TrimRight(TrimLeft(s))

\* strings.IndexRune, counted from 1; 0 when r is not in s
IndexRune(s, r) ==
    IF \E i \in 1 .. Len(s) : s[i] = r
    THEN CHOOSE i \in 1 .. Len(s) : s[i] = r /\ \A j \in 1 .. i - 1 : s[j] # r
    ELSE 0

RECURSIVE Split(_, _)
\* strings.Split(s, sep) for a separator of one code point: the piece before
\* each separator in turn, then the rest
Split(s, sep) ==
    LET i == IndexRune(s, sep) IN
    IF i = 0 THEN <<s>>
    ELSE <<SubSeq(s, 1, i - 1)>> \o Split(SubSeq(s, i + 1, Len(s)), sep)

\* Versions on a miss with a 200 response:
\* strings.Split(strings.TrimSpace(string(body)), "\n")
VersionsOf(body) == Split(TrimSpace(body), 10)

\* unicode.IsUpper, on the code points up to U+00FF and the others of PathRunes
IsUpper(r) == r \in 65 .. 90 \/ r \in 192 .. 214 \/ r \in 216 .. 222

\* unicode.ToLower, on the same
ToLower(r) == IF IsUpper(r) THEN r + 32 ELSE r

\* byte(r): the low eight bits of the code point
Byte(r) == r % 256

\* the bytes of a code point in a Go string (UTF-8), up to U+FFFF
Utf8(r) ==
    IF r < 128 THEN <<r>>
    ELSE IF r < 2048 THEN <<192 + (r \div 64), 128 + (r % 64)>>
    ELSE <<224 + (r \div 4096), 128 + ((r \div 64) % 64), 128 + (r % 64)>>

RECURSIVE escapePath(_)
\* escapePath: the bytes appended for each code point of the path in turn
escapePath(path) ==
    IF path = << >> THEN << >>
    ELSE (IF IsUpper(Head(path)) THEN <<33, Byte(ToLower(Head(path)))>>
          ELSE <<Byte(Head(path))>>) \o escapePath(Tail(path))

\* a response body for Versions or a module path for escapePath is chosen
PureInit ==
    /\ CacheInit /\ ClientIdle /\ work = {} /\ GraphIdle /\ WriterIdle /\ FetchIdle
    /\ pureRes = NoResult
    /\ \/ pureFn = "Versions" /\ pureArg \in SeqsUpTo(BodyRunes, MaxBodyLen)
       \/ pureFn = "escapePath" /\ pureArg \in SeqsUpTo(PathRunes, MaxPathLen)

\* Versions turns the body into its result
ApplyVersions ==
    /\ pureFn = "Versions" /\ ~pureRes.done
    /\ pureRes' = [done |-> TRUE, out |-> VersionsOf(pureArg)]
    /\ UNCHANGED <<cacheVars, clockVars, clientVars, ev, fetch, writerVars, pureFn, pureArg,
                   graphVars>>

\* escapePath turns the module path into the bytes of its result
ApplyEscapePath ==
    /\ pureFn = "escapePath" /\ ~pureRes.done
    /\ pureRes' = [done |-> TRUE, out |-> escapePath(pureArg)]
    /\ UNCHANGED <<cacheVars, clockVars, clientVars, ev, fetch, writerVars, pureFn, pureArg,
                   graphVars>>

NextPure == ApplyVersions \/ ApplyEscapePath

SpecPure == PureInit /\ [][NextPure]_vars

----------------------------------------------------------------------------
(* The dependency graph builder (internal/graph/builder.go) *)

\* the depth at which BuildWithProxy stops buildChildren
maxDepth == 10

\* the longest Require list of a go.mod given to Build
MaxRequires == 3
\* the longest Require list of a go.mod given to BuildWithProxy with a client
MaxRootRequires == 2
\* the longest Require list of a go.mod the registry serves
MaxManifest == 2
\* the versions of a module the registry knows are v1 .. vMaxVersion
MaxVersion == 12

RootPath == "r"
ModPaths == {"a", "b", "c"}

Ver(n) == "v" \o ToString(n)

VersionNumber(v) == CHOOSE n \in 1 .. MaxVersion : Ver(n) = v

\* a line of a Require list: modfile.Require
Req(path, n, indirect) == [Path |-> path, Version |-> Ver(n), Indirect |-> indirect]

\* the requirements a go.mod given to Build is made of
BuildPool == {Req(p, n, i) : p \in ModPaths, n \in 1 .. 2, i \in BOOLEAN}

\* the requirements the go.mod of the root and of a module at v1 are made of
\* when a client is given
RichPool == {Req("a", 1, FALSE), Req("b", 1, FALSE), Req("a", 2, FALSE), Req("b", 2, TRUE)}

DirectRequiresAll(reqs) == reqs

\* Parser.DirectRequires: the entries that are not marked indirect, in file order
DirectRequires(reqs) == SelectSeq(reqs, LAMBDA r : ~r.Indirect)

\* Parser.IndirectRequires: the entries that are marked indirect, in file order
IndirectRequires(reqs) == SelectSeq(reqs, LAMBDA r : r.Indirect)

\* what client.GetModFile and modfile.Parse come to for a module version
FetchFailed == [kind |-> "fetch", reqs |-> << >>]
ParseFailed == [kind |-> "parse", reqs |-> << >>]
Manifest(reqs) == [kind |-> "ok", reqs |-> reqs]

\* the answers the registry can give for path@version: module a at v1 has
\* any go.mod over RichPool, or none, or one that does not parse; another
\* module at v1 requires nothing, or a at v1, at v2 or at both, or has no
\* go.mod; a module at a later version requires nothing, or its own next
\* version, or has no go.mod
Candidates(path, version) ==
    IF VersionNumber(version) = 1 /\ path = "a"
    THEN {FetchFailed, ParseFailed} \cup {Manifest(m) : m \in SeqsUpTo(RichPool, MaxManifest)}
    ELSE IF VersionNumber(version) = 1
    THEN {FetchFailed, Manifest(<< >>), Manifest(<<Req("a", 1, FALSE)>>),
          Manifest(<<Req("a", 2, FALSE)>>),
          Manifest(<<Req("a", 1, FALSE), Req("a", 2, FALSE)>>)}
    ELSE {FetchFailed, Manifest(<< >>)}
         \cup (IF VersionNumber(version) < MaxVersion
               THEN {Manifest(<<Req(path, VersionNumber(version) + 1, FALSE)>>)}
               ELSE {})

\* nodeKey := path + "@" + version
NodeKey(path, version) == path \o "@" \o version

\* one registry answers the whole build: a key asked again gets the same answer
Responses(key, path, version) ==
    IF key \in DOMAIN registry THEN {registry[key]} ELSE Candidates(path, version)

getOrCreateNodeByPath(nodes, index, path, version, direct) ==
    LET key == NodeKey(path, version) IN
    IF path \in DOMAIN index
    THEN [nodes |-> IF direct THEN [nodes EXCEPT ![index[path]].Direct = TRUE] ELSE nodes,
          index |-> index,
          node |-> index[path]]
    ELSE [nodes |-> Append(nodes, [Path |-> path, Version |-> version, Direct |-> direct,
                                   Children |-> << >>]),
          index |-> (path :> Len(nodes) + 1) @@ (key :> Len(nodes) + 1) @@ index,
          node |-> Len(nodes) + 1]

getOrCreateNodeAssigns(nodes, index, path, version, direct) ==
    LET key == NodeKey(path, version) IN
    IF key \in DOMAIN index
    THEN [nodes |-> [nodes EXCEPT ![index[key]].Direct = direct],
          index |-> index,
          node |-> index[key]]
    ELSE [nodes |-> Append(nodes, [Path |-> path, Version |-> version, Direct |-> direct,
                                   Children |-> << >>]),
          index |-> (path :> Len(nodes) + 1) @@ (key :> Len(nodes) + 1) @@ index,
          node |-> Len(nodes) + 1]

\* getOrCreateNode: the node of path@version, made and entered in the index
\* under both of its keys if it is not there; Direct is raised, never lowered
getOrCreateNode(nodes, index, path, version, direct) ==
    LET key == NodeKey(path, version) IN
    IF key \in DOMAIN index
    THEN [nodes |-> IF direct THEN [nodes EXCEPT ![index[key]].Direct = TRUE] ELSE nodes,
          index |-> index,
          node |-> index[key]]
    ELSE [nodes |-> Append(nodes, [Path |-> path, Version |-> version, Direct |-> direct,
                                   Children |-> << >>]),
          index |-> (path :> Len(nodes) + 1) @@ (key :> Len(nodes) + 1) @@ index,
          node |-> Len(nodes) + 1]

\* the root node, and the index that holds it under its path
RootNode == [Path |-> RootPath, Version |-> "", Direct |-> TRUE, Children |-> << >>]

AddChild(nodes, parent, child) == [nodes EXCEPT ![parent].Children = Append(@, child)]

\* a call of buildChildren: pc is "enter" before its checks and "loop" inside
\* its loop over reqs, the rest of modFile.Require; call numbers the calls
Frame(node, depth, call) ==
    [node |-> node, depth |-> depth, pc |-> "enter", reqs |-> << >>, call |-> call]

Top == stack[Len(stack)]

PopStays == stack

\* the innermost call of buildChildren returns
Pop == SubSeq(stack, 1, Len(stack) - 1)

DepthReachedLate(depth) == depth > maxDepth

\* if depth >= maxDepth
DepthReached(depth) == depth >= maxDepth

VisitedNever(key) == FALSE

\* if visited[nodeKey]
Visited(key) == key \in visited

\* for _, existing := range node.Children: existing.Path == child.Path
AlreadyChild(nodes, parent, child) ==
    \E i \in 1 .. Len(nodes[parent].Children) :
        nodes[nodes[parent].Children[i]].Path = nodes[child].Path

BuildEvent(kind, node, depth, key, fetched, attached) ==
    [kind |-> kind, node |-> node, depth |-> depth, key |-> key, fetched |-> fetched,
     attached |-> attached]

Count(f, x) == IF x \in DOMAIN f THEN f[x] ELSE 0

\* the records kept of a new call, of a fetch and of an attachment by a call
HistCall(h) == [h EXCEPT !.calls = @ + 1]

HistFetch(h, key, depth) ==
    [h EXCEPT !.fetches = (key :> Count(h.fetches, key) + 1) @@ @,
              !.depths = (key :> depth) @@ @]

HistAttach(h, node, call) ==
    [h EXCEPT !.attachers =
        (node :> (IF node \in DOMAIN @ THEN @[node] ELSE {}) \cup {call}) @@ @]

\* BuildWithProxy is entered with the Parser of a go.mod: the root is made and
\* indexed; without a client both loops are to run, with one only the first
GraphInit(reqs, proxy) ==
    /\ CacheInit /\ ClientIdle /\ work = {} /\ PureIdle /\ WriterIdle /\ FetchIdle
    /\ goMod = reqs
    /\ gnodes = <<RootNode>>
    /\ gindex = (RootPath :> 1)
    /\ todo = [direct |-> DirectRequires(reqs),
               indirect |-> IF proxy THEN << >> ELSE IndirectRequires(reqs)]
    /\ stack = << >>
    /\ visited = {}
    /\ registry = << >>
    /\ ghist = NoBuildHistory
    /\ gev = NoBuildEvent
    /\ gpc = "run"

\* without a client: the first loop takes a direct requirement
AddDirect ==
    /\ gpc = "run" /\ todo.direct # << >>
    /\ LET req == Head(todo.direct)
           g == getOrCreateNode(gnodes, gindex, req.Path, req.Version, TRUE)
       IN /\ gnodes' = AddChild(g.nodes, 1, g.node)
          /\ gindex' = g.index
          /\ gev' = BuildEvent("direct", g.node, 0, NodeKey(req.Path, req.Version), FALSE, 1)
    /\ todo' = [todo EXCEPT !.direct = Tail(@)]
    /\ UNCHANGED <<cacheVars, clockVars, clientVars, ev, fetch, writerVars, pureVars,
                   goMod, stack, visited, registry, ghist, gpc>>

\* without a client: the second loop takes an indirect requirement
AddIndirect ==
    /\ gpc = "run" /\ todo.direct = << >> /\ todo.indirect # << >>
    /\ LET req == Head(todo.indirect)
           g == getOrCreateNode(gnodes, gindex, req.Path, req.Version, FALSE)
       IN /\ gnodes' = g.nodes
          /\ gindex' = g.index
          /\ gev' = BuildEvent("indirect", g.node, 0, NodeKey(req.Path, req.Version),
                               FALSE, 0)
    /\ todo' = [todo EXCEPT !.indirect = Tail(@)]
    /\ UNCHANGED <<cacheVars, clockVars, clientVars, ev, fetch, writerVars, pureVars,
                   goMod, stack, visited, registry, ghist, gpc>>

\* BuildWithProxy returns the graph
FinishBuild ==
    /\ gpc = "run" /\ todo.direct = << >> /\ todo.indirect = << >> /\ stack = << >>
    /\ gpc' = "done"
    /\ gev' = BuildEvent("return", 0, 0, "", FALSE, 0)
    /\ UNCHANGED <<cacheVars, clockVars, clientVars, ev, fetch, writerVars, pureVars,
                   goMod, gnodes, gindex, todo, stack, visited, registry, ghist>>

\* with a client: the loop takes a direct requirement, attaches its node to
\* the root and calls buildChildren on it at depth 0
NextDirect ==
    /\ gpc = "run" /\ stack = << >> /\ todo.direct # << >>
    /\ LET req == Head(todo.direct)
           g == getOrCreateNode(gnodes, gindex, req.Path, req.Version, TRUE)
       IN /\ gnodes' = AddChild(g.nodes, 1, g.node)
          /\ gindex' = g.index
          /\ stack' = <<Frame(g.node, 0, ghist.calls + 1)>>
          /\ gev' = BuildEvent("direct", g.node, 0, NodeKey(req.Path, req.Version), FALSE, 1)
    /\ todo' = [todo EXCEPT !.direct = Tail(@)]
    /\ ghist' = HistCall(ghist)
    /\ UNCHANGED <<cacheVars, clockVars, clientVars, ev, fetch, writerVars, pureVars,
                   goMod, visited, registry, gpc>>

AfterFetchAborts(f, resp) ==
    IF resp.kind = "ok" THEN Append(Pop, [f EXCEPT !.pc = "loop", !.reqs = resp.reqs])
    ELSE << >>

\* if err != nil { return } after GetModFile and after Parse: the call returns
\* to its caller; otherwise it goes on to its loop over modFile.Require
AfterFetch(f, resp) ==
    IF resp.kind = "ok" THEN Append(Pop, [f EXCEPT !.pc = "loop", !.reqs = resp.reqs])
    ELSE Pop

\* buildChildren is entered: it returns at maxDepth and on a visited key;
\* otherwise it marks the key, fetches the go.mod with GetModFile and parses
\* it, and returns if either fails
EnterBuildChildren ==
    /\ gpc = "run" /\ stack # << >> /\ Top.pc = "enter"
    /\ LET f == Top
           key == NodeKey(gnodes[f.node].Path, gnodes[f.node].Version)
       IN IF DepthReached(f.depth) \/ Visited(key)
          THEN /\ stack' = Pop
               /\ gev' = BuildEvent("enter", f.node, f.depth, key, FALSE, 0)
               /\ UNCHANGED <<visited, registry, ghist>>
          ELSE \E resp \in Responses(key, gnodes[f.node].Path, gnodes[f.node].Version) :
               /\ visited' = visited \cup {key}
               /\ registry' = (key :> resp) @@ registry
               /\ ghist' = HistFetch(ghist, key, f.depth)
               /\ stack' = AfterFetch(f, resp)
               /\ gev' = BuildEvent("enter", f.node, f.depth, key, TRUE, 0)
    /\ UNCHANGED <<cacheVars, clockVars, clientVars, ev, fetch, writerVars, pureVars,
                   goMod, gnodes, gindex, todo, gpc>>

\* one turn of buildChildren's loop: an indirect requirement is passed over;
\* the node of a direct one is looked up or made and, unless the parent has a
\* child of that path, attached, and buildChildren is called on it one level
\* down; after the last requirement the call returns
LoopBuildChildren ==
    /\ gpc = "run" /\ stack # << >> /\ Top.pc = "loop"
    /\ LET f == Top
           req == Head(f.reqs)
           rest == Append(Pop, [f EXCEPT !.reqs = Tail(@)])
           g == getOrCreateNode(gnodes, gindex, req.Path, req.Version, FALSE)
       IN IF f.reqs = << >>
          THEN /\ stack' = Pop
               /\ gev' = BuildEvent("return", f.node, f.depth, "", FALSE, 0)
               /\ UNCHANGED <<gnodes, gindex, ghist>>
          ELSE IF req.Indirect
          THEN /\ stack' = rest
               /\ gev' = BuildEvent("skip", f.node, f.depth, "", FALSE, 0)
               /\ UNCHANGED <<gnodes, gindex, ghist>>
          ELSE IF AlreadyChild(g.nodes, f.node, g.node)
          THEN /\ stack' = rest
               /\ gnodes' = g.nodes
               /\ gindex' = g.index
               /\ gev' = BuildEvent("loop", f.node, f.depth, NodeKey(req.Path, req.Version),
                                    FALSE, 0)
               /\ UNCHANGED ghist
          ELSE /\ stack' = Append(rest, Frame(g.node, f.depth + 1, ghist.calls + 1))
               /\ gnodes' = AddChild(g.nodes, f.node, g.node)
               /\ gindex' = g.index
               /\ ghist' = HistAttach(HistCall(ghist), f.node, f.call)
               /\ gev' = BuildEvent("loop", f.node, f.depth, NodeKey(req.Path, req.Version),
                                    FALSE, 1)
    /\ UNCHANGED <<cacheVars, clockVars, clientVars, ev, fetch, writerVars, pureVars,
                   goMod, todo, visited, registry, gpc>>

\* Build, or BuildWithProxy without a client, on a go.mod
BuildInit == \E reqs \in SeqsUpTo(BuildPool, MaxRequires) : GraphInit(reqs, FALSE)

NextBuild == AddDirect \/ AddIndirect \/ FinishBuild

SpecBuild == BuildInit /\ [][NextBuild]_vars

\* BuildWithProxy with a client, on a go.mod and a registry
ProxyInit == \E reqs \in SeqsUpTo(RichPool, MaxRootRequires) : GraphInit(reqs, TRUE)

NextGraph == NextDirect \/ EnterBuildChildren \/ LoopBuildChildren \/ FinishBuild

SpecGraph == ProxyInit /\ [][NextGraph]_vars

\* BuildWithProxy with a client on a go.mod without indirect lines, which
\* DirectRequires would drop before the build starts
DirectInit ==
    \E reqs \in SeqsUpTo({r \in RichPool : ~r.Indirect}, MaxRootRequires) :
        GraphInit(reqs, TRUE)

\* the build with its one goroutine always taking its next step: every fetch
\* returns, and nothing else can hold the build up
SpecGraphLive == DirectInit /\ [][NextGraph]_vars /\ WF_vars(NextGraph)

\* the strings the graph is asked about once it is built
QueryStrings == ModPaths \cup {RootPath, "zz", NodeKey("a", Ver(1)), NodeKey("a", Ver(2))}

\* FindNode: g.Nodes[path], nil (0) when the map has no such key
FindNode(index, path) == IF path \in DOMAIN index THEN index[path] ELSE 0

RECURSIVE dfs(_, _, _, _)
RECURSIVE dfsChildren(_, _, _, _)

\* the closure dfs of FindPaths, as the paths it appends: none if the node's
\* path is marked visited, which it is exactly while it lies on currentPath;
\* the extended currentPath if the node is the target; else what its children
\* append, in order
dfs(nodes, n, currentPath, targetPath) ==
    IF \E i \in 1 .. Len(currentPath) : currentPath[i] = nodes[n].Path
    THEN << >>
    ELSE IF nodes[n].Path = targetPath
    THEN <<Append(currentPath, nodes[n].Path)>>
    ELSE dfsChildren(nodes, nodes[n].Children, Append(currentPath, nodes[n].Path), targetPath)

\* for _, child := range node.Children { dfs(child) }
dfsChildren(nodes, children, currentPath, targetPath) ==
    IF children = << >> THEN << >>
    ELSE dfs(nodes, Head(children), currentPath, targetPath)
         \o dfsChildren(nodes, Tail(children), currentPath, targetPath)

\* FindPaths: dfs(g.Root), the paths in the order they were appended
FindPaths(nodes, targetPath) == dfs(nodes, 1, << >>, targetPath)

\* the variables the closure dfs of FindPaths shares with it: paths,
\* currentPath and visited (the strings marked true), and the calls of dfs made
Traversal(paths, currentPath, marked, n) ==
    [paths |-> paths, currentPath |-> currentPath, visited |-> marked, calls |-> n]

\* currentPath = append(currentPath, node.Path); visited[node.Path] = true
enter(st, path) ==
    [st EXCEPT !.currentPath = Append(@, path), !.visited = @ \cup {path}]

leaveMarked(st, path) ==
    [st EXCEPT !.currentPath = SubSeq(@, 1, Len(@) - 1)]

\* currentPath = currentPath[:len(currentPath)-1]; visited[node.Path] = false
leave(st, path) ==
    [st EXCEPT !.currentPath = SubSeq(@, 1, Len(@) - 1), !.visited = @ \ {path}]

RECURSIVE dfsRun(_, _, _, _)
RECURSIVE dfsRunChildren(_, _, _, _)

\* the closure dfs of FindPaths, statement by statement, on its variables
dfsRun(nodes, n, st, targetPath) ==
    LET called == [st EXCEPT !.calls = @ + 1]
        in == enter(called, nodes[n].Path)
    IN IF nodes[n].Path \in st.visited
       THEN called
       ELSE IF nodes[n].Path = targetPath
       THEN leave([in EXCEPT !.paths = Append(@, in.currentPath)], nodes[n].Path)
       ELSE leave(dfsRunChildren(nodes, nodes[n].Children, in, targetPath), nodes[n].Path)

dfsRunChildren(nodes, children, st, targetPath) ==
    IF children = << >> THEN st
    ELSE dfsRunChildren(nodes, Tail(children),
                        dfsRun(nodes, Head(children), st, targetPath), targetPath)

\* FindPaths, with the variables of the traversal as they are when it returns
FindPathsRun(nodes, targetPath) ==
    dfsRun(nodes, 1, Traversal(<< >>, << >>, {}, 0), targetPath)

\* FindNode is called on the graph BuildWithProxy returned
CallFindNode ==
    /\ gpc = "done"
    /\ \E q \in QueryStrings :
          /\ pureFn' = "FindNode"
          /\ pureArg' = q
          /\ pureRes' = [done |-> TRUE, out |-> FindNode(gindex, q)]
    /\ UNCHANGED <<cacheVars, clockVars, clientVars, ev, fetch, writerVars, graphVars>>

\* FindPaths is called on the graph BuildWithProxy returned
CallFindPaths ==
    /\ gpc = "done"
    /\ \E q \in QueryStrings :
          /\ pureFn' = "FindPaths"
          /\ pureArg' = q
          /\ pureRes' = [done |-> TRUE, out |-> FindPaths(gnodes, q)]
    /\ UNCHANGED <<cacheVars, clockVars, clientVars, ev, fetch, writerVars, graphVars>>

\* BuildWithProxy with a client, and the queries on the graph it returns
NextQuery == NextGraph \/ CallFindNode \/ CallFindPaths

SpecQuery == ProxyInit /\ [][NextQuery]_vars

\* BuildWithProxy with a client, and FindPaths on the graph it returns
NextPaths == NextGraph \/ CallFindPaths

SpecPaths == DirectInit /\ [][NextPaths]_vars

\* the requirements of a go.mod that names its own module among them
SelfPool == {Req(p, 1, i) : p \in {RootPath, "a"}, i \in BOOLEAN}

\* Build on such a go.mod, and FindNode on the graph it returns
SelfInit == \E reqs \in SeqsUpTo(SelfPool, MaxRequires) : GraphInit(reqs, FALSE)

NextSelf == NextBuild \/ CallFindNode

SpecSelf == SelfInit /\ [][NextSelf]_vars

----------------------------------------------------------------------------
(* The manifest writer (internal/modfile, Writer) *)

\* the modules a requirement is set for or dropped, and the versions it is
\* set to; "bad" is a string that is no version
WriterMods == {"a", "b"}
GoodVersions == {"v1", "v2"}
WriterVersions == GoodVersions \cup {"bad"}

\* a require line as Format prints it
Line(path, version) == path \o " " \o version

\* modfile.File.Format: the lines of the requirements, in order
Format(file) == [i \in 1 .. Len(file) |-> Line(file[i].Path, file[i].Version)]

\* what a write that failed midway leaves of a file
Torn == <<"a">>

\* NewParser(path) returns no error: the file is there and modfile.Parse
\* accepts it, every line a module path and a version
Parses(data) ==
    /\ data # NoFile
    /\ \A i \in 1 .. Len(data) :
          \E p \in WriterMods, v \in GoodVersions : data[i] = Line(p, v)

\* modfile.File.AddRequire: the version of the requirement of that path is
\* set, or a requirement is added at the end
AddRequire(file, path, version) ==
    IF \E i \in 1 .. Len(file) : file[i].Path = path
    THEN [i \in 1 .. Len(file) |->
             IF file[i].Path = path THEN [Path |-> path, Version |-> version] ELSE file[i]]
    ELSE Append(file, [Path |-> path, Version |-> version])

\* modfile.File.DropRequire
DropRequire(file, path) == SelectSeq(file, LAMBDA r : r.Path # path)

\* how a call of os.WriteFile or os.Remove can end
FileOutcomes == {"ok", "untouched", "torn"}

\* os.WriteFile(name, data): the file holds data, or the call fails and leaves
\* the file as it was or cut short
WriteFile(old, data, o) ==
    IF o = "ok" THEN data ELSE IF o = "torn" THEN Torn ELSE old

\* the files and the Writer's flag, as the operations below pass them on
World == [disk |-> disk, backupFile |-> backupFile, backupMade |-> writer.backupMade]

Done(s, err) == [s |-> s, err |-> err]

\* Writer.Backup: nothing if a backup was made; else parser.data is written to
\* the backup path and the backup is marked made
Backup(s, o) ==
    IF s.backupMade THEN Done(s, "")
    ELSE IF o = "ok"
    THEN Done([s EXCEPT !.backupFile = parser.data, !.backupMade = TRUE], "")
    ELSE Done([s EXCEPT !.backupFile = WriteFile(@, parser.data, o)], "creating backup")

\* Writer.RestoreBackup: the backup file is read and written over go.mod
RestoreBackup(s, o) ==
    IF ~s.backupMade THEN Done(s, "no backup to restore")
    ELSE IF s.backupFile = NoFile THEN Done(s, "reading backup")
    ELSE Done([s EXCEPT !.disk = WriteFile(@, s.backupFile, o)],
              IF o = "ok" THEN "" ELSE "restoring backup")

\* Writer.CleanupBackup: the backup file is removed and the mark taken back
CleanupBackup(s, o) ==
    IF ~s.backupMade THEN Done(s, "")
    ELSE IF o = "ok"
    THEN Done([s EXCEPT !.backupFile = NoFile, !.backupMade = FALSE], "")
    ELSE Done(s, "removing backup")

\* Writer.Write: the formatted requirements are written over go.mod
Write(s, o) ==
    Done([s EXCEPT !.disk = WriteFile(@, Format(parser.file), o)],
         IF o = "ok" THEN "" ELSE "writing go.mod")

\* Writer.SafeWrite: Backup, Write and a NewParser of the written file; after
\* a failed Write or a file that does not parse, RestoreBackup
SafeWrite(s, ob, ow, or) ==
    LET b == Backup(s, ob)
        w == Write(b.s, ow)
        r == RestoreBackup(w.s, or)
    IN IF b.err # "" THEN Done(b.s, "backup failed")
       ELSE IF w.err # ""
       THEN Done(r.s, IF r.err # "" THEN "write failed and restore failed"
                      ELSE "write failed (backup restored)")
       ELSE IF ~Parses(w.s.disk)
       THEN Done(r.s, IF r.err # "" THEN "validation failed and restore failed"
                      ELSE "validation failed (backup restored)")
       ELSE Done(w.s, "")

WriterEvent(op, err) == [op |-> op, err |-> err, before |-> disk]

\* the files and the flag become those of the world an operation returned
Becomes(s) ==
    /\ disk' = s.disk
    /\ backupFile' = s.backupFile
    /\ writer' = [writer EXCEPT !.backupMade = s.backupMade]

\* the go.mod files a Writer starts from: up to two requirements, of different
\* modules, at versions that parse
StartFiles ==
    {f \in SeqsUpTo([Path : WriterMods, Version : GoodVersions], Cardinality(WriterMods)) :
        \A i, j \in 1 .. Len(f) : f[i].Path = f[j].Path => i = j}

\* NewParser on a go.mod, then NewWriter on the Parser
WriterInit ==
    /\ CacheInit /\ ClientIdle /\ work = {} /\ PureIdle /\ GraphIdle /\ FetchIdle
    /\ \E f \in StartFiles :
          /\ disk = Format(f)
          /\ parser = [file |-> f, data |-> Format(f)]
    /\ backupFile = NoFile
    /\ writer = [backupMade |-> FALSE]
    /\ wev = NoWriterEvent

CallUpdateRequire ==
    /\ \E p \in WriterMods, v \in WriterVersions :
          parser' = [parser EXCEPT !.file = AddRequire(@, p, v)]
    /\ wev' = WriterEvent("UpdateRequire", "")
    /\ UNCHANGED <<cacheVars, clockVars, clientVars, ev, fetch, pureVars, graphVars,
                   disk, backupFile, writer>>

CallDropRequire ==
    /\ \E p \in WriterMods : parser' = [parser EXCEPT !.file = DropRequire(@, p)]
    /\ wev' = WriterEvent("DropRequire", "")
    /\ UNCHANGED <<cacheVars, clockVars, clientVars, ev, fetch, pureVars, graphVars,
                   disk, backupFile, writer>>

CallBackup ==
    /\ \E o \in FileOutcomes :
          LET d == Backup(World, o) IN Becomes(d.s) /\ wev' = WriterEvent("Backup", d.err)
    /\ UNCHANGED <<cacheVars, clockVars, clientVars, ev, fetch, pureVars, graphVars, parser>>

CallCleanupBackup ==
    /\ \E o \in FileOutcomes \ {"torn"} :
          LET d == CleanupBackup(World, o)
          IN Becomes(d.s) /\ wev' = WriterEvent("CleanupBackup", d.err)
    /\ UNCHANGED <<cacheVars, clockVars, clientVars, ev, fetch, pureVars, graphVars, parser>>

CallWrite ==
    /\ \E o \in FileOutcomes :
          LET d == Write(World, o) IN Becomes(d.s) /\ wev' = WriterEvent("Write", d.err)
    /\ UNCHANGED <<cacheVars, clockVars, clientVars, ev, fetch, pureVars, graphVars, parser>>

CallSafeWrite ==
    /\ \E ob, ow, or \in FileOutcomes :
          LET d == SafeWrite(World, ob, ow, or)
          IN Becomes(d.s) /\ wev' = WriterEvent("SafeWrite", d.err)
    /\ UNCHANGED <<cacheVars, clockVars, clientVars, ev, fetch, pureVars, graphVars, parser>>

NextWriter ==
    \/ CallUpdateRequire
    \/ CallDropRequire
    \/ CallBackup
    \/ CallCleanupBackup
    \/ CallWrite
    \/ CallSafeWrite

SpecWriter == WriterInit /\ [][NextWriter]_vars

----------------------------------------------------------------------------
(* The vulnerability scanner (internal/vulndb/scanner.go) *)

\* the most lines of govulncheck's output, and the most packages one
\* advisory names as affected
MaxEvents == 2
MaxAffected == 2

\* the advisory ids and the package names of the output
AdvisoryIDs == {"GO-1", "GO-12"}
PackageNames == {"x.io/m", "2x.io/m"}

\* a line of the output: an osv message with its id and the package names of
\* its affected list, or a line that carries no osv (a finding, a progress
\* message, a line that is no JSON)
OSV(id, affected) == [osv |-> TRUE, ID |-> id, Affected |-> affected]
OtherLine == [osv |-> FALSE, ID |-> "", Affected |-> << >>]
Messages ==
    {OSV(id, a) : id \in AdvisoryIDs, a \in SeqsUpTo(PackageNames, MaxAffected)}
        \cup {OtherLine}

\* vulnMap[osv.ID+pkgName] = vuln, for each package of the affected list
RECURSIVE StoreAffected(_, _, _)
StoreAffected(vulnMap, id, affected) ==
    IF affected = << >> THEN vulnMap
    ELSE StoreAffected(((id \o Head(affected)) :> [ID |-> id, Package |-> Head(affected)])
                           @@ vulnMap,
                       id, Tail(affected))

\* the loop over the lines of the output
RECURSIVE ScanLines(_, _)
ScanLines(vulnMap, lines) ==
    IF lines = << >> THEN vulnMap
    ELSE IF Head(lines).osv
    THEN ScanLines(StoreAffected(vulnMap, Head(lines).ID, Head(lines).Affected), Tail(lines))
    ELSE ScanLines(vulnMap, Tail(lines))

\* ScanModule's result.Vulnerabilities: one element for each key of vulnMap,
\* in the order the map is ranged over; kept as the bag of the elements
ScanModule(lines) ==
    LET vulnMap == ScanLines(<< >>, lines)
    IN [v \in {vulnMap[k] : k \in DOMAIN vulnMap} |->
           Cardinality({k \in DOMAIN vulnMap : vulnMap[k] = v})]

\* govulncheck has printed its output
ScanInit ==
    /\ CacheInit /\ ClientIdle /\ work = {} /\ GraphIdle /\ WriterIdle /\ FetchIdle
    /\ pureFn = "ScanModule"
    /\ pureArg \in SeqsUpTo(Messages, MaxEvents)
    /\ pureRes = NoResult

\* ScanModule turns the output into its result
ApplyScanModule ==
    /\ pureFn = "ScanModule" /\ ~pureRes.done
    /\ pureRes' = [done |-> TRUE, out |-> ScanModule(pureArg)]
    /\ UNCHANGED <<cacheVars, clockVars, clientVars, ev, fetch, writerVars, pureFn, pureArg,
                   graphVars>>

NextScan == ApplyScanModule

SpecScan == ScanInit /\ [][NextScan]_vars

----------------------------------------------------------------------------
(* The outdated command's parallel fetch (commands/outdated, fetchPackages) *)

\* the longest requirement list given to fetchPackages
MaxTasks == 3

\* what a task's Latest call and classifyUpdate come to: an error, or the
\* update type
FetchOutcomes == {"err", "none", "patch", "minor", "major"}

CapacityShort(n) == n - 1

\* progressCh := make(chan int, len(requires))
Capacity(n) == n

\* the task goroutine of one requirement: where it is, and what its fetch
\* came to once it has returned
Task(pc, outcome) == [pc |-> pc, outcome |-> outcome]

\* a task goes on to its append if its fetch succeeded, the update passes the
\* MajorOnly filter and its type is not none; else straight to its progress
AfterLatest(outcome, majorOnly) ==
    IF outcome = "err" THEN "lockProgress"
    ELSE IF majorOnly /\ outcome # "major" THEN "lockProgress"
    ELSE IF outcome # "none" THEN "lockAppend"
    ELSE "lockProgress"

FetchTasks == 1 .. Len(fetch.tasks)

AllDone == \A i \in FetchTasks : fetch.tasks[i].pc = "done"

\* fetchPackagesWithSpinner makes the channel and calls fetchPackages, which
\* starts one goroutine per requirement and goes to wg.Wait()
FetchInit ==
    /\ CacheInit /\ ClientIdle /\ work = {} /\ PureIdle /\ GraphIdle /\ WriterIdle
    /\ \E n \in 1 .. MaxTasks, majorOnly \in BOOLEAN :
          fetch = [pc |-> "wait",
                   MajorOnly |-> majorOnly,
                   tasks |-> [i \in 1 .. n |-> Task("fetch", "")],
                   mu |-> 0,
                   checked |-> 0,
                   progressCh |-> << >>,
                   closed |-> FALSE,
                   sent |-> << >>,
                   packages |-> << >>]

FetchUnchanged ==
    UNCHANGED <<cacheVars, clockVars, clientVars, ev, pureVars, graphVars, writerVars>>

\* proxyClient.Latest returns to a task, and the update is classified
LatestReturns(i) ==
    /\ fetch.tasks[i].pc = "fetch"
    /\ \E o \in FetchOutcomes :
          fetch' = [fetch EXCEPT !.tasks[i] = Task(AfterLatest(o, fetch.MajorOnly), o)]
    /\ FetchUnchanged

\* mu.Lock() returns to a task, before its append or before its progress
TaskLock(i) ==
    /\ fetch.tasks[i].pc \in {"lockAppend", "lockProgress"}
    /\ fetch.mu = 0
    /\ fetch' = [fetch EXCEPT !.mu = i,
                              !.tasks[i].pc = IF @ = "lockAppend" THEN "append" ELSE "send"]
    /\ FetchUnchanged

\* packages = append(packages, pkg); mu.Unlock()
TaskAppend(i) ==
    /\ fetch.tasks[i].pc = "append"
    /\ fetch' = [fetch EXCEPT !.packages = Append(@, i),
                              !.mu = 0,
                              !.tasks[i].pc = "lockProgress"]
    /\ FetchUnchanged

\* checked++; progressCh <- checked, which needs room in the buffer;
\* mu.Unlock(); the deferred wg.Done()
TaskSend(i) ==
    /\ fetch.tasks[i].pc = "send"
    /\ Len(fetch.progressCh) < Capacity(Len(fetch.tasks))
    /\ fetch' = [fetch EXCEPT !.checked = @ + 1,
                              !.progressCh = Append(@, fetch.checked + 1),
                              !.sent = Append(@, [task |-> i, value |-> fetch.checked + 1]),
                              !.mu = 0,
                              !.tasks[i].pc = "done"]
    /\ FetchUnchanged

TaskStep ==
    \E i \in FetchTasks : LatestReturns(i) \/ TaskLock(i) \/ TaskAppend(i) \/ TaskSend(i)

\* the spinner's goroutine takes a value: for checked := range progressCh
Receive ==
    /\ fetch.pc # "idle"
    /\ fetch.progressCh # << >>
    /\ fetch' = [fetch EXCEPT !.progressCh = Tail(@)]
    /\ FetchUnchanged

\* wg.Wait() returns, fetchPackages returns packages, and its caller closes
\* the channel
FetchReturns ==
    /\ fetch.pc = "wait"
    /\ AllDone
    /\ fetch' = [fetch EXCEPT !.pc = "returned", !.closed = TRUE]
    /\ FetchUnchanged

NextFetch == TaskStep \/ Receive \/ FetchReturns

SpecFetch == FetchInit /\ [][NextFetch]_vars

----------------------------------------------------------------------------
(* The audit command's table (internal/commands/audit/audit.go) *)

\* the longest list of vulnerabilities given to outputTable
MaxVulns == 3

\* Severity strings of a vulnerability: the scanner sets UNKNOWN or the upper
\* case of the advisory's database_specific.severity, which is any string
SeverityStrings ==
    {"CRITICAL", "HIGH", "MEDIUM", "LOW", "UNKNOWN", "MODERATE", "high", ""}

\* vulndb.Vulnerability, as far as the table's grouping reads it
Vulnerability(id, severity) == [ID |-> id, Severity |-> severity]

AuditVulns == {Vulnerability(id, sv) : id \in {"GO-1", "GO-2"}, sv \in SeverityStrings}

\* strings.ToUpper on the severity strings
SeverityUpper(sv) == IF sv = "high" THEN "HIGH" ELSE sv

\* severity := strings.ToUpper(v.Severity); if severity == "" then UNKNOWN
SeverityKey(v) ==
    IF SeverityUpper(v.Severity) = "" THEN "UNKNOWN" ELSE SeverityUpper(v.Severity)

\* the map bySeverity after the grouping loop
bySeverity(vulns) ==
    [sv \in {SeverityKey(vulns[i]) : i \in 1 .. Len(vulns)} |->
        SelectSeq(vulns, LAMBDA v : SeverityKey(v) = sv)]

\* the headings the table knows, in the order it prints them
severities == <<"CRITICAL", "HIGH", "MEDIUM", "LOW", "UNKNOWN">>

\* both loops over severities pass over a heading that bySeverity does not have
Printed(m) == SelectSeq(severities, LAMBDA sv : sv \in DOMAIN m)

\* what outputTable prints: the sections, each with its heading, its count and
\* its vulnerabilities, the total, and the summary's count per heading
outputTable(vulns) ==
    LET m == bySeverity(vulns)
        shown == Printed(m)
    IN IF vulns = << >>
       THEN [none |-> TRUE, sections |-> << >>, total |-> 0, summary |-> << >>]
       ELSE [none |-> FALSE,
             sections |-> [k \in 1 .. Len(shown) |->
                              [heading |-> shown[k], count |-> Len(m[shown[k]]),
                               items |-> m[shown[k]]]],
             total |-> Len(vulns),
             summary |-> [k \in 1 .. Len(shown) |->
                              [heading |-> shown[k], count |-> Len(m[shown[k]])]]]

\* a list of vulnerabilities is chosen
AuditInit ==
    /\ CacheInit /\ ClientIdle /\ work = {} /\ GraphIdle /\ WriterIdle /\ FetchIdle
    /\ pureRes = NoResult
    /\ pureFn = "outputTable" /\ pureArg \in SeqsUpTo(AuditVulns, MaxVulns)

\* outputTable prints the table of the list
ApplyOutputTable ==
    /\ pureFn = "outputTable" /\ ~pureRes.done
    /\ pureRes' = [done |-> TRUE, out |-> outputTable(pureArg)]
    /\ UNCHANGED <<cacheVars, clockVars, clientVars, ev, fetch, writerVars, pureFn, pureArg,
                   graphVars>>

NextAudit == ApplyOutputTable

SpecAudit == AuditInit /\ [][NextAudit]_vars

----------------------------------------------------------------------------
(* The cache's contract, under Spec *)

\* the last step was a Get of a key whose last Set, with no Clear since, is h
GetAfterSet == ev.kind = "Get" /\ ev.key \in DOMAIN hist /\ hist[ev.key].live

LastSet == hist[ev.key]

\* C1: after Set(key, value, ttl) with ttl > 0 at time t, with no later Set or
\* Clear of the key, a Get before t + ttl returns (value, found) and a Get after
\* t + ttl returns not-found, whether the sweep has removed the entry or not.
C1_GetHonoursTTL ==
    (GetAfterSet /\ LastSet.ttl > 0) =>
        /\ now < LastSet.at + LastSet.ttl => (ev.found /\ ev.value = LastSet.value)
        /\ now > LastSet.at + LastSet.ttl => (~ev.found /\ ev.value = Nil)

\* a Get finds an expired entry that the sweep has not removed, and reports not-found
C1_Witness ==
    /\ GetAfterSet /\ LastSet.ttl > 0
    /\ now > LastSet.at + LastSet.ttl
    /\ ev.key \in DOMAIN entries
    /\ ~ev.found

\* C2 as stated: after Set(key, value, ttl) with ttl <= 0 every Get of the key,
\* also one at the clock instant of the Set, returns not-found.
C2_ZeroTTLExpiredAtOnce ==
    (GetAfterSet /\ LastSet.ttl <= 0) => ~ev.found

\* C2 amended: after Set with ttl < 0 every Get of the key returns not-found;
\* after Set with ttl = 0 every Get at a later clock instant returns not-found,
\* and a Get at the clock instant of the Set still returns (value, found).
C2_NonPositiveTTL ==
    (GetAfterSet /\ LastSet.ttl <= 0) =>
        /\ (LastSet.ttl < 0 \/ now > LastSet.at) => (~ev.found /\ ev.value = Nil)
        /\ (LastSet.ttl = 0 /\ now = LastSet.at) => (ev.found /\ ev.value = LastSet.value)

\* a Get at the clock instant of a Set with negative ttl reports not-found
C2_Witness ==
    /\ GetAfterSet /\ LastSet.ttl < 0
    /\ now = LastSet.at
    /\ ~ev.found

\* C3: a Get of a key that was never Set, or not Set again since the last
\* Clear, returns not-found; right after Clear the entries map is empty.
C3_AbsentKeysNotFound ==
    /\ (ev.kind = "Get" /\ ~GetAfterSet) => (~ev.found /\ ev.value = Nil)
    /\ ev.kind = "Clear" => entries = EmptyMap

\* a Get of a key that was Set and then cleared reports not-found
C3_Witness ==
    /\ ev.kind = "Get"
    /\ ev.key \in DOMAIN hist /\ ~hist[ev.key].live
    /\ ~ev.found

\* C4: a Get that finds a key returns the value of the last Set of that key,
\* judged against the expiry of that same Set (the entry holds both), and a
\* Get no later than that expiry finds it, whatever the expiry of the entry
\* that Set replaced.
C4_OverwriteIsAtomic ==
    GetAfterSet =>
        /\ ev.found =>
                /\ ev.value = LastSet.value
                /\ entries[ev.key] = [value |-> LastSet.value,
                                      expiration |-> LastSet.at + LastSet.ttl]
        /\ ev.found <=> now <= LastSet.at + LastSet.ttl

\* a Get finds an overwritten entry after the expiry of the entry it replaced
C4_Witness ==
    /\ GetAfterSet /\ ev.found
    /\ LastSet.prev < LastSet.at + LastSet.ttl
    /\ now > LastSet.prev

----------------------------------------------------------------------------
(* The client's contract, under SpecClient and SpecGate *)

IsCall(e) == e.kind \in {"Call", "Cancel", "Woken", "Send", "Respond"}

SameRequest(e, f) == e.op = f.op /\ e.path = f.path /\ e.ver = f.ver

EvKey == CacheKey(Request(ev.op, ev.path, ev.ver))

\* C5: when a call of Latest, Versions, Info or GetModFile has returned
\* successfully and the next step is a call with the same arguments, that call
\* returns the same value, from the cache, without sending a request.
C5_RepeatIsHit ==
    [][(/\ IsCall(ev) /\ ev.ret /\ ev.err = ""
        /\ ev'.kind = "Call" /\ SameRequest(ev, ev'))
       => (ev'.ret /\ ev'.hit /\ ev'.err = "" /\ ev'.val = ev.val /\ ev'.reqs = 0)]_vars

\* a call is served the value that a fetch stored at this instant
C5_Witness ==
    /\ ev.kind = "Call" /\ ev.hit /\ ev.ret /\ ev.reqs = 0
    /\ EvKey \in DOMAIN hist
    /\ hist[EvKey].at = now /\ hist[EvKey].value = ev.val

\* C6: a successful fetch stores its result with an expiry ShortTTL (Latest,
\* Versions) or LongTTL (Info, GetModFile) after the store; a call is served
\* from the cache only up to that expiry, and a call made after it misses the
\* cache, takes a slot and sends a request, unless its context is cancelled.
C6_ServedWithinTTL ==
    /\ (ev.kind = "Respond" /\ ev.err = "") =>
            /\ EvKey \in DOMAIN entries
            /\ entries[EvKey].expiration =
                   now + (IF ev.op \in {"Latest", "Versions"} THEN ShortTTL ELSE LongTTL)
    /\ (ev.kind = "Call" /\ EvKey \in DOMAIN hist) =>
            LET stored == hist[EvKey]
                ttl == IF ev.op \in {"Latest", "Versions"} THEN ShortTTL ELSE LongTTL
            IN  /\ stored.ttl = ttl
                /\ ev.hit <=> now <= stored.at + ttl
                /\ now > stored.at + ttl =>
                       IF ev.done THEN ev.ret => ev.err = "canceled"
                       ELSE ~ev.ret /\ ev.pc = "admitted"
    /\ (ev.kind = "Call" /\ EvKey \notin DOMAIN hist) => ~ev.hit
    /\ (ev.kind = "Send" /\ ~ev.done /\ EvKey \in DOMAIN hist) => (~ev.ret /\ ev.reqs = 1)

\* a call of Info or GetModFile made after LongTTL has elapsed is admitted
C6_Witness ==
    /\ ev.kind = "Call" /\ ~ev.hit /\ ~ev.ret /\ ev.pc = "admitted"
    /\ EvKey \in DOMAIN hist
    /\ hist[EvKey].ttl = LongTTL
    /\ now > hist[EvKey].at + LongTTL

\* C7: the number of HTTP requests in flight never exceeds defaultMaxConcurrent.
C7_InFlightBounded == InFlight <= defaultMaxConcurrent

\* every slot carries a request and one more call waits at the gate
C7_Witness == InFlight = defaultMaxConcurrent /\ Len(sendq) > 0

\* C8: when the context of a call blocked at the full gate is cancelled, the
\* call leaves the queue without a slot, and its next step returns the
\* cancellation error; it takes no slot and sends no request.
C8_CancelledAtGate ==
    [][/\ (ev'.kind = "Cancel" /\ Len(sendq') < Len(sendq)) =>
              /\ CountPc("woken")' = CountPc("woken") + 1
              /\ sem' = sem
              /\ CountPc("admitted")' = CountPc("admitted")
              /\ InFlight' = InFlight
       /\ CountPc("woken")' < CountPc("woken") =>
              /\ ev'.kind = "Woken" /\ ev'.ret /\ ev'.err = "canceled"
              /\ ev'.val = NilValue /\ ev'.reqs = 0
              /\ sem' = sem
              /\ CountPc("admitted")' = CountPc("admitted")
              /\ InFlight' = InFlight]_vars

\* a call cancelled at the gate returns while every slot is still taken
C8_Witness ==
    /\ ev.kind = "Woken" /\ ev.ret /\ ev.err = "canceled"
    /\ sem = defaultMaxConcurrent

\* C9 as stated: a call made with a cancelled context returns an error and
\* sends no request, whether the key is cached or not.
C9_CancelledCallFails ==
    (ev.kind = "Call" /\ ev.done /\ ev.ret) => (ev.err # "" /\ ev.reqs = 0)

\* C9 amended: a call made with a cancelled context sends no request; when the
\* cache holds an unexpired value for its key it returns that value with no
\* error; otherwise it returns an error, from the select or, if the select
\* took a free slot, from building the request or from c.http.Do, and it never
\* blocks at the gate.
C9_CancelledCallSendsNothing ==
    /\ (ev.kind = "Call" /\ ev.done) =>
            /\ ev.reqs = 0
            /\ ev.ret <=> (ev.hit \/ ev.err = "canceled")
            /\ ev.hit => (ev.err = "" /\ ev.val = hist[EvKey].value)
            /\ ~ev.hit => ev.val = NilValue
            /\ ~ev.ret => ev.pc = "admitted"
    /\ (ev.kind = "Send" /\ ev.done) =>
            /\ ev.ret /\ ev.val = NilValue /\ ev.reqs = 0
            /\ ev.err = (IF ValidURL(ev.path) THEN "fetching" ELSE "creating")
    /\ \A i \in 1 .. Len(sendq) : ~sendq[i].done

\* a call made with a cancelled context at the full gate returns the error
C9_Witness ==
    /\ ev.kind = "Call" /\ ev.done /\ ev.ret /\ ev.err = "canceled"
    /\ sem = defaultMaxConcurrent

\* C10: only the step in which a fetch returns successfully writes the cache:
\* every other step of a call, and so every step of a call that returns an
\* error, leaves keys, values and expiries as they were.
C10_FailedFetchWritesNothing ==
    [][(IsCall(ev') /\ ~(ev'.kind = "Respond" /\ ev'.err = ""))
       => entries' = entries]_vars

\* a fetch fails to decode the body and the key is not in the cache
C10_Witness ==
    /\ ev.kind = "Respond" /\ ev.err = "decode"
    /\ EvKey \notin DOMAIN entries

\* C11: for each of the four operations, a response whose status is not 2xx
\* makes the call return an error and no value, and the text of the error
\* holds the status code and the body text read from the response.
C11_StatusErrorCarriesCodeAndBody ==
    (/\ ev.kind = "Respond" /\ ev.resp # DoFailed
     /\ ev.resp.code \notin 200 .. 299) =>
        /\ ev.ret /\ ev.err = "status" /\ ev.val = NilValue
        /\ ev.text.fmt = "proxy returned %d: %s"
        /\ ev.text.code = ev.resp.code
        /\ ev.text.body = ev.resp.got

\* a call is answered 404 and returns the error with the code and the whole body
C11_Witness ==
    /\ ev.kind = "Respond" /\ ev.ret /\ ev.err = "status"
    /\ ev.resp.code = 404
    /\ ev.text.code = 404 /\ ev.text.body = ErrorBody

\* C12: the slots taken in the gate are those of the calls between admission
\* and return: a call that returns, with a value or with any error, has given
\* its slot back once, a call cancelled at the gate holds none, and with no
\* call in progress no slot is taken.
C12_SlotsMatchAdmittedCalls ==
    /\ sem = CountPc("admitted") + InFlight
    /\ Active = 0 => sem = 0
    /\ \A c \in BagToSet(calls) : c.pc \in {"woken", "admitted", "inflight"}

\* a call whose request could not be built returns and the gate, which was
\* full, has a free slot again
C12_Witness ==
    /\ ev.kind = "Send" /\ ev.ret /\ ev.err = "creating"
    /\ sem = defaultMaxConcurrent - 1

----------------------------------------------------------------------------
(* The pure functions' contract, under SpecPure *)

RECURSIVE Join(_, _)
\* the pieces put together again with sep between them
Join(pieces, sep) ==
    IF Len(pieces) = 1 THEN pieces[1]
    ELSE pieces[1] \o <<sep>> \o Join(Tail(pieces), sep)

\* t is s without its leading and trailing white space
IsTrimOf(t, s) ==
    /\ t = << >> \/ (~IsSpace(t[1]) /\ ~IsSpace(t[Len(t)]))
    /\ \E i \in 0 .. Len(s) :
          /\ i + Len(t) <= Len(s)
          /\ t = SubSeq(s, i + 1, i + Len(t))
          /\ \A j \in (1 .. i) \cup (i + Len(t) + 1 .. Len(s)) : IsSpace(s[j])

\* C14: the result of Versions is never the empty list; its entries hold no
\* newline and, put together with newlines in order, give the body without
\* its surrounding white space; for the empty body it is the list of the one
\* empty string.
C14_VersionsSplitsTrimmedBody ==
    (pureFn = "Versions" /\ pureRes.done) =>
        /\ Len(pureRes.out) >= 1
        /\ \A i \in 1 .. Len(pureRes.out) :
              \A j \in 1 .. Len(pureRes.out[i]) : pureRes.out[i][j] # 10
        /\ IsTrimOf(Join(pureRes.out, 10), pureArg)
        /\ pureArg = << >> => pureRes.out = << << >> >>

\* a body of two versions with white space around it gives the two versions
C14_Witness ==
    /\ pureFn = "Versions" /\ pureRes.done
    /\ Len(pureArg) = 4 /\ IsSpace(pureArg[1])
    /\ pureRes.out = << <<118>>, <<118>> >>

RECURSIVE EscapeAsStated(_)
\* the bytes of the path with '!' and the lower-case letter for every
\* upper-case ASCII letter and every other character as it is
EscapeAsStated(path) ==
    IF path = << >> THEN << >>
    ELSE (IF Head(path) \in 65 .. 90 THEN <<33, Head(path) + 32>>
          ELSE Utf8(Head(path))) \o EscapeAsStated(Tail(path))

\* C15 as stated: escapePath(p) has '!' and the lower-case letter for every
\* upper-case ASCII letter of p and every other character of p unchanged,
\* also for the characters of p that are not ASCII.
C15_EscapesUpperPassesRest ==
    (pureFn = "escapePath" /\ pureRes.done) => pureRes.out = EscapeAsStated(pureArg)

----------------------------------------------------------------------------
(* The graph builder's contract, under SpecBuild and SpecGraph *)

RootChildren == gnodes[1].Children

\* the direct and the indirect requirements of the go.mod, in file order
StatedDirect == SelectSeq(goMod, LAMBDA r : r.Indirect = FALSE)

StatedIndirect == SelectSeq(goMod, LAMBDA r : r.Indirect = TRUE)

\* the graph Build returns for N direct and M indirect requirements: the root
\* has the N direct requirements as its children, in order and childless, the
\* index has at least N + M + 1 entries, and every indirect requirement is in
\* the index and is no child of the root
BuildShape ==
    /\ Len(RootChildren) = Len(StatedDirect)
    /\ \A i \in 1 .. Len(StatedDirect) :
          /\ gnodes[RootChildren[i]].Path = StatedDirect[i].Path
          /\ gnodes[RootChildren[i]].Version = StatedDirect[i].Version
          /\ gnodes[RootChildren[i]].Children = << >>
    /\ Cardinality(DOMAIN gindex) >= Len(StatedDirect) + Len(StatedIndirect) + 1
    /\ \A j \in 1 .. Len(StatedIndirect) :
          /\ StatedIndirect[j].Path \in DOMAIN gindex
          /\ NodeKey(StatedIndirect[j].Path, StatedIndirect[j].Version) \in DOMAIN gindex
          /\ \A i \in 1 .. Len(RootChildren) :
                RootChildren[i] #
                    gindex[NodeKey(StatedIndirect[j].Path, StatedIndirect[j].Version)]

\* the go.mod requires no module version twice
DistinctRequirements ==
    \A i, j \in 1 .. Len(goMod) :
        i # j => (goMod[i].Path # goMod[j].Path \/ goMod[i].Version # goMod[j].Version)

\* C16 as stated: Build, for every go.mod of N direct and M indirect
\* requirements, returns a graph whose root has exactly the N direct
\* requirements as childless children in order, whose index has at least
\* N + M + 1 entries and holds every indirect requirement, none of which is a
\* child of the root.
C16_BuildShapeAlways == gpc = "done" => BuildShape

\* C16 amended: the same, for a go.mod that requires no module version twice.
C16_BuildShapeDistinct == (gpc = "done" /\ DistinctRequirements) => BuildShape

\* Build returned the graph of two direct requirements and an indirect one
C16_Witness ==
    /\ gpc = "done" /\ DistinctRequirements
    /\ Len(StatedDirect) = 2 /\ Len(StatedIndirect) = 1
    /\ Len(RootChildren) = 2

\* C17: a buildChildren call at depth maxDepth or more fetches no go.mod and
\* attaches no child: it returns at once, so no call is in its loop at such a
\* depth and no call is nested deeper than maxDepth.
C17_NoExpansionAtMaxDepth ==
    /\ (gev.kind \in {"enter", "loop", "skip"} /\ gev.depth >= maxDepth) =>
            (gev.kind = "enter" /\ ~gev.fetched /\ gev.attached = 0)
    /\ \A i \in 1 .. Len(stack) :
          /\ stack[i].depth = i - 1
          /\ stack[i].depth <= maxDepth
          /\ stack[i].pc = "loop" => stack[i].depth < maxDepth

\* a call at depth maxDepth on a module that was never visited has returned
\* without asking the registry
C17_Witness ==
    /\ gev.kind = "enter" /\ gev.depth = maxDepth /\ ~gev.fetched
    /\ gev.key \notin visited
    /\ gev.key \notin DOMAIN registry

Max(S) == CHOOSE x \in S : \A y \in S : y <= x

ChildSet(n) == {gnodes[n].Children[i] : i \in 1 .. Len(gnodes[n].Children)}

RECURSIVE LongestFrom(_, _)
\* the edges of the longest chain of Children edges from n that meets no node
\* of seen and no node twice
LongestFrom(n, seen) ==
    IF ChildSet(n) \ seen = {} THEN 0
    ELSE 1 + Max({LongestFrom(k, seen \cup {k}) : k \in ChildSet(n) \ seen})

\* C18 as stated: in a graph BuildWithProxy returned, the longest chain of
\* Children edges from the root that repeats no node has at most maxDepth + 1
\* edges, also when modules are shared by several parents.
C18_ChainsBounded == gpc = "done" => LongestFrom(1, {1}) <= maxDepth + 1

\* C19: GetModFile is asked at most once for each path@version, and the
\* children of a node are attached by at most one buildChildren call, however
\* often the pair is reached.
C19_ExpandedOnce ==
    /\ \A k \in DOMAIN ghist.fetches : ghist.fetches[k] <= 1
    /\ DOMAIN ghist.fetches = visited
    /\ \A n \in DOMAIN ghist.attachers : Cardinality(ghist.attachers[n]) <= 1

\* a module that has been expanded is reached again, as the child of a second
\* parent, and the call returns without a fetch
C19_Witness ==
    /\ gev.kind = "enter" /\ ~gev.fetched /\ gev.depth < maxDepth
    /\ Count(ghist.fetches, gev.key) = 1
    /\ gev.node \in DOMAIN ghist.attachers
    /\ Cardinality({n \in 1 .. Len(gnodes) : gev.node \in ChildSet(n)}) >= 2

\* C20 as stated: in a graph BuildWithProxy returned no node, the root
\* included, has two children of the same path, whatever the go.mod of the
\* root and the fetched go.mod files require.
C20_NoTwoChildrenOfAPath ==
    gpc = "done" =>
        \A n \in 1 .. Len(gnodes) :
            \A i, j \in 1 .. Len(gnodes[n].Children) :
                i # j => gnodes[gnodes[n].Children[i]].Path # gnodes[gnodes[n].Children[j]].Path

----------------------------------------------------------------------------
(* The builder against a failing registry, and the identity of nodes, under
   SpecGraph *)

KeyOf(n) == NodeKey(gnodes[n].Path, gnodes[n].Version)

\* C21: BuildWithProxy never fails because of the registry: whatever fetches
\* fail and whatever manifests do not parse, the build is never stuck before
\* it returns its graph; the root then has one child per direct requirement,
\* each of them expanded; a node whose manifest fetch or parse failed has no
\* children; and the expansion of a node whose manifest was read went through
\* all of its direct requirements, each of which has a node and is
\* represented among the node's children, every child expanded unless it
\* lies at the depth limit.
C21_RegistryFailuresAreLocal ==
    /\ gpc = "run" => ENABLED NextGraph
    /\ \A k \in DOMAIN registry :
          registry[k].kind # "ok" => gnodes[gindex[k]].Children = << >>
    /\ gpc = "done" =>
          /\ Len(RootChildren) = Len(StatedDirect)
          /\ \A i \in 1 .. Len(StatedDirect) :
                /\ gnodes[RootChildren[i]].Path = StatedDirect[i].Path
                /\ gnodes[RootChildren[i]].Version = StatedDirect[i].Version
                /\ KeyOf(RootChildren[i]) \in visited
          /\ \A k \in DOMAIN registry :
                registry[k].kind = "ok" =>
                   /\ \A i \in 1 .. Len(registry[k].reqs) :
                         LET r == registry[k].reqs[i] IN
                         ~r.Indirect =>
                            /\ NodeKey(r.Path, r.Version) \in DOMAIN gindex
                            /\ \E c \in ChildSet(gindex[k]) : gnodes[c].Path = r.Path
                   /\ \A c \in ChildSet(gindex[k]) :
                         KeyOf(c) \in visited \/ ghist.depths[k] + 1 >= maxDepth

\* the build returned; the manifest of the root's first child could not be
\* had, its second child was expanded all the same, and of that child's own
\* children one has a failed manifest and another has children
C21_Witness ==
    /\ gpc = "done"
    /\ Len(RootChildren) = 2
    /\ registry[KeyOf(RootChildren[1])].kind # "ok"
    /\ registry[KeyOf(RootChildren[2])].kind = "ok"
    /\ \E c, d \in ChildSet(RootChildren[2]) :
          /\ KeyOf(c) \in DOMAIN registry /\ registry[KeyOf(c)].kind # "ok"
          /\ gnodes[d].Children # << >>

\* the versions getOrCreateNode is asked for in C22
AskedVersions == {Ver(1), Ver(2)}

\* C22: in one graph, getOrCreateNode called again with the same (path,
\* version) returns the same node, whatever was asked in between, and called
\* with the same path and another version returns another node; the node under
\* a path@version key has that path and that version, and no two nodes of the
\* graph have the same path and version.
C22_OneNodePerModuleVersion ==
    /\ \A i, j \in 2 .. Len(gnodes) :
          (gnodes[i].Path = gnodes[j].Path /\ gnodes[i].Version = gnodes[j].Version) => i = j
    /\ \A i \in 2 .. Len(gnodes) : KeyOf(i) \in DOMAIN gindex /\ gindex[KeyOf(i)] = i
    /\ \A p \in ModPaths : \A v, w \in AskedVersions :
          LET first == getOrCreateNode(gnodes, gindex, p, v, TRUE)
              other == getOrCreateNode(first.nodes, first.index, p, w, FALSE)
              again == getOrCreateNode(other.nodes, other.index, p, v, FALSE)
          IN /\ again.node = first.node
             /\ again.nodes[again.node].Path = p /\ again.nodes[again.node].Version = v
             /\ (v # w) => other.node # first.node
             /\ (v = w) => other.node = first.node

\* the builder has just been given, for a requirement, the node of a module
\* version it had expanded before, in a graph that holds two versions of one
\* module
C22_Witness ==
    /\ gev.kind = "loop" /\ gev.key \in visited
    /\ \E i, j \in 2 .. Len(gnodes) :
          gnodes[i].Path = gnodes[j].Path /\ gnodes[i].Version # gnodes[j].Version

----------------------------------------------------------------------------
(* The graph's queries, under SpecQuery *)

\* the nodes whose Path is the string
NodesOfPath(q) == {i \in 1 .. Len(gnodes) : gnodes[i].Path = q}

\* C23 as stated: FindNode(path) returns the node most recently registered
\* under that bare path, across all versions seen during the build, a node
\* whose Path is the queried path; and it returns nil for every string that is
\* not the path of a registered module.
C23_FindNodeByBarePath ==
    (pureFn = "FindNode" /\ pureRes.done) =>
        IF NodesOfPath(pureArg) = {}
        THEN pureRes.out = 0
        ELSE /\ pureRes.out = Max(NodesOfPath(pureArg))
             /\ gnodes[pureRes.out].Path = pureArg


RECURSIVE StatedPaths(_, _, _)

\* the sequences of node paths that go on from currentPath through node n along
\* Children edges, repeat no path string and end at the first node whose Path
\* is the target
StatedPaths(n, currentPath, targetPath) ==
    IF \E i \in 1 .. Len(currentPath) : currentPath[i] = gnodes[n].Path
    THEN {}
    ELSE IF gnodes[n].Path = targetPath
    THEN {Append(currentPath, gnodes[n].Path)}
    ELSE UNION {StatedPaths(c, Append(currentPath, gnodes[n].Path), targetPath) :
                   c \in ChildSet(n)}

\* C24 as stated: FindPaths(target) returns exactly the sequences of node paths
\* that start at the root, follow Children edges, repeat no path string and end
\* at the first node whose Path is the target: each of them once and nothing
\* else, so two for a node shared by two parents and none for a target that
\* cannot be reached.
C24_FindPathsExactlyOnce ==
    (pureFn = "FindPaths" /\ pureRes.done) =>
        /\ {pureRes.out[i] : i \in 1 .. Len(pureRes.out)} = StatedPaths(1, << >>, pureArg)
        /\ \A i, j \in 1 .. Len(pureRes.out) : pureRes.out[i] = pureRes.out[j] => i = j

----------------------------------------------------------------------------
(* Concurrent misses of one key, under SpecClient *)

\* C25: concurrent misses for one key are not deduplicated: each call that
\* missed may send its own request, and each that succeeds returns the value
\* decoded from the body it fetched itself and Sets it, so that the entry is
\* then that value with an expiry counted from that Set; whenever no call is
\* in progress, the entry of a key, while the sweep has not removed it, is the
\* value and the expiry written by the last Set to complete.
C25_LastSetWins ==
    /\ (ev.kind = "Respond" /\ ev.err = "") =>
          /\ ev.reqs = 1
          /\ ev.val = [type |-> TypeOf(ev.op), data |-> ev.resp.body]
          /\ EvKey \in DOMAIN entries /\ entries[EvKey].value = ev.val
          /\ hist[EvKey].value = ev.val /\ hist[EvKey].at = now
    /\ (calls = EmptyBag /\ sendq = << >>) =>
          \A k \in DOMAIN hist \cap DOMAIN entries :
              /\ entries[k].value = hist[k].value
              /\ entries[k].expiration = hist[k].at + hist[k].ttl

\* the second of two calls that missed the same key has returned what it
\* fetched, over the entry the first had stored a tick before and that was
\* still live; no call is in progress
C25_Witness ==
    /\ ev.kind = "Respond" /\ ev.err = ""
    /\ calls = EmptyBag
    /\ hist[EvKey].prev >= now
    /\ hist[EvKey].prev < entries[EvKey].expiration

----------------------------------------------------------------------------
(* The writer's rollback, under SpecWriter *)

\* C26 as stated: whenever SafeWrite returns an error, for a failed backup, a
\* failed write or a failed validation, the go.mod on disk has the content it
\* had just before SafeWrite was called, whatever UpdateRequire, DropRequire,
\* Write, Backup and CleanupBackup calls came before.
C26_FailedSafeWriteLeavesFile ==
    (wev.op = "SafeWrite" /\ wev.err # "") => disk = wev.before

----------------------------------------------------------------------------
(* The scanner's deduplication, under SpecScan *)

\* the pairs (advisory id, package name) of the scanner's event stream
EventPairs(lines) ==
    UNION {{<<lines[i].ID, lines[i].Affected[j]>> : j \in 1 .. Len(lines[i].Affected)} :
              i \in {n \in 1 .. Len(lines) : lines[n].osv}}

\* C27 as stated: ScanModule deduplicates by (advisory id, package name): its
\* result holds exactly one Vulnerability for each distinct pair of the event
\* stream, so that repeated events for one pair collapse into one finding and
\* events for two different pairs are never merged into one.
C27_OneFindingPerPair ==
    (pureFn = "ScanModule" /\ pureRes.done) =>
        /\ DOMAIN pureRes.out =
               {[ID |-> pr[1], Package |-> pr[2]] : pr \in EventPairs(pureArg)}
        /\ \A v \in DOMAIN pureRes.out : pureRes.out[v] = 1

----------------------------------------------------------------------------
(* The cache's lock and its sweep, under Spec *)

\* the operations inside their critical sections, by kind
Inside(ops) == {o \in BagToSet(crit) : o.op \in ops}
CountInside(ops) == BagCardinality([o \in Inside(ops) |-> crit[o]])

\* C28: the lock gives writers exclusive access: while a Set, a Clear or a
\* sweep pass is inside its critical section it is the only operation inside
\* one, no Get and no other writer with it; Gets may be inside theirs together;
\* the lock's writer flag and reader count are those of the operations inside.
C28_WritersExclusive ==
    /\ CountInside({"Set", "Clear", "cleanup"}) <= 1
    /\ CountInside({"Set", "Clear", "cleanup"}) = 1 => CountInside({"Get"}) = 0
    /\ mu.w <=> CountInside({"Set", "Clear", "cleanup"}) = 1
    /\ mu.r = CountInside({"Get"})

\* two Gets are inside their critical sections at once
C28_Witness == CountInside({"Get"}) = 2 /\ mu.r = 2 /\ ~mu.w


\* C29: a sweep pass deletes exactly the entries whose expiry has passed at
\* the time of the pass and leaves every other entry as it was, key, value and
\* expiry: an entry that is not yet expired is never removed by the sweep.
C29_SweepDeletesExpiredOnly ==
    [][ev'.kind = "sweep" =>
          /\ now' = now
          /\ DOMAIN entries' = {k \in DOMAIN entries : ~(now > entries[k].expiration)}
          /\ \A k \in DOMAIN entries' : entries'[k] = entries[k]
          /\ ev'.n = Cardinality(DOMAIN entries \ DOMAIN entries')]_vars

\* a sweep pass has removed an entry and left one that expires at this very
\* instant
C29_Witness ==
    /\ ev.kind = "sweep" /\ ev.n = 1
    /\ \E k \in DOMAIN entries : entries[k].expiration = now


----------------------------------------------------------------------------
(* The sweep's progress, under SpecSweep *)

\* the key has an entry whose expiry has passed
Expired(k) == k \in DOMAIN entries /\ now > entries[k].expiration

\* C30: under fair scheduling of the sweep and of the lock, every entry whose
\* expiry has passed is eventually out of the entries map unless it is Set
\* again, while Get, Set and Clear calls keep arriving; the sweep never stops:
\* pass follows pass for ever; and it never holds the lock beyond one pass: a
\* sweep that is inside its critical section leaves it.
C30_ExpiredEventuallySwept ==
    /\ \A k \in Keys :
          Expired(k) ~> (k \notin DOMAIN entries \/ (ev.kind = "Set" /\ ev.key = k))
    /\ []<>(ev.kind = "sweep")
    /\ (CountInside({"cleanup"}) = 1) ~> (CountInside({"cleanup"}) = 0)

\* a pass has removed an expired entry and left a live one, and the next tick
\* is waiting already
C30_Witness ==
    /\ ev.kind = "sweep" /\ ev.n = 1
    /\ tickerC
    /\ \E k \in DOMAIN entries : ~Expired(k)

----------------------------------------------------------------------------
(* The builder's termination, under SpecGraphLive *)

\* C31: BuildWithProxy terminates for every requirement list and every
\* registry behaviour in which each fetch returns: with requirement cycles,
\* modules that require themselves, chains of ever new module versions and
\* fetch failures at any place, the build returns its graph, and the calls of
\* buildChildren made by then are finitely many: no more than one for the
\* root's every requirement and one for every attachment of a child.
C31_BuildTerminates ==
    /\ <>(gpc = "done")
    /\ [](ghist.calls <= Len(StatedDirect) + Len(gnodes) * Len(gnodes))

\* the build has returned from a registry in which module a at v1 requires
\* itself and b at v1, which requires a at v1 back, and in which chains of
\* later versions were followed to the depth limit
C31_Witness ==
    /\ gpc = "done"
    /\ NodeKey("a", Ver(1)) \in DOMAIN registry
    /\ NodeKey("b", Ver(1)) \in DOMAIN registry
    /\ \E i \in 1 .. Len(registry[NodeKey("a", Ver(1))].reqs) :
          registry[NodeKey("a", Ver(1))].reqs[i] = Req("a", 1, FALSE)
    /\ \E i \in 1 .. Len(registry[NodeKey("b", Ver(1))].reqs) :
          registry[NodeKey("b", Ver(1))].reqs[i] = Req("a", 1, FALSE)
    /\ \E k \in DOMAIN ghist.depths : ghist.depths[k] = maxDepth - 1

----------------------------------------------------------------------------
(* The Direct flag, under SpecGraph *)

\* C33: a node's Direct flag only ever changes from false to true: no step of
\* the build lowers the flag of a node or removes a node, the node a
\* requirement of the root's go.mod is looked up for has the flag set
\* afterwards, and so every child of the root has Direct = true at all times,
\* also one that was first made as a requirement of another module.
C33_DirectOnlyRises ==
    /\ [][/\ Len(gnodes') >= Len(gnodes)
          /\ \A i \in 1 .. Len(gnodes) : gnodes[i].Direct => gnodes'[i].Direct
          /\ gev'.kind = "direct" => gnodes'[gev'.node].Direct]_vars
    /\ [](\A i \in 1 .. Len(RootChildren) : gnodes[RootChildren[i]].Direct)

\* the root has just attached, for the first time, a node that another module
\* had as its child already: it was made with Direct = false and has it true
C33_Witness ==
    /\ gev.kind = "direct"
    /\ gnodes[gev.node].Direct
    /\ Cardinality({i \in 1 .. Len(RootChildren) : RootChildren[i] = gev.node}) = 1
    /\ \E j \in 2 .. Len(gnodes) : \E i \in 1 .. Len(gnodes[j].Children) :
          gnodes[j].Children[i] = gev.node

----------------------------------------------------------------------------
(* Cycles of Children edges, under SpecGraph *)

RECURSIVE ReachFrom(_, _)
\* seen, and the nodes that chains of Children edges from front lead to
ReachFrom(front, seen) ==
    LET next == UNION {ChildSet(k) : k \in front} \ seen
    IN IF next = {} THEN seen ELSE ReachFrom(next, seen \cup next)

\* the nodes reached from n by one or more Children edges
Descendants(n) == ReachFrom({n}, {})

\* C36 as stated: the graph BuildWithProxy returns has no cycle of Children
\* edges: no node is reached from itself by one or more Children edges,
\* whatever the registry serves.
C36_ChildrenAcyclic ==
    gpc = "done" => \A n \in 1 .. Len(gnodes) : n \notin Descendants(n)

----------------------------------------------------------------------------
(* How far the expansion goes, under SpecGraph *)

RECURSIVE Within(_, _)
\* the nodes that chains of at most d Children edges from the nodes of S reach
Within(S, d) ==
    IF d = 0 THEN S ELSE S \cup Within(UNION {ChildSet(k) : k \in S}, d - 1)

\* the node has a child of that path and version
HasChild(n, req) ==
    \E k \in ChildSet(n) : gnodes[k].Path = req.Path /\ gnodes[k].Version = req.Version

\* the go.mod of the node's module was fetched during the build
Fetched(n) == KeyOf(n) \in DOMAIN registry

\* C40 as stated: when no fetch and no parse failed, every node of the
\* returned graph that a chain of at most 10 Children edges from the root
\* reaches has had its go.mod fetched and has every direct requirement of that
\* go.mod among its children.
C40_ExpansionComplete ==
    (gpc = "done" /\ \A k \in DOMAIN registry : registry[k].kind = "ok")
    => \A n \in Within({1}, maxDepth) \ {1} :
          /\ Fetched(n)
          /\ \A i \in 1 .. Len(registry[KeyOf(n)].reqs) :
                ~registry[KeyOf(n)].reqs[i].Indirect => HasChild(n, registry[KeyOf(n)].reqs[i])

----------------------------------------------------------------------------
(* The root's entry in the index, under SpecSelf *)

\* C37 as stated: after Build returns, FindNode(Root.Path) returns the root
\* node itself, for every requirement list, also one with a requirement that
\* names the root module's own path at some version.
C37_FindNodeOfRootPath ==
    (pureFn = "FindNode" /\ pureRes.done /\ pureArg = RootPath) => pureRes.out = 1

----------------------------------------------------------------------------
(* The traversal of FindPaths, under SpecPaths *)

\* C38: FindPaths terminates on every graph BuildWithProxy returns, also one
\* built from requirement cycles; when it returns the current path is empty
\* and no path string is left marked visited, the number of dfs calls is
\* finite, and a traversal that starts from the state the first one left
\* returns the same paths, which are the paths FindPaths returned.
C38_FindPathsBalanced ==
    (pureFn = "FindPaths" /\ pureRes.done) =>
        LET st == FindPathsRun(gnodes, pureArg)
        IN /\ st.currentPath = << >>
           /\ st.visited = {}
           /\ st.calls >= 1
           /\ st.paths = pureRes.out
           /\ dfsRun(gnodes, 1, Traversal(<< >>, st.currentPath, st.visited, 0),
                     pureArg).paths = st.paths

\* FindPaths has returned a path on a graph in which a node is its own
\* descendant
C38_Witness ==
    /\ pureFn = "FindPaths" /\ pureRes.done
    /\ pureRes.out # << >>
    /\ \E n \in 1 .. Len(gnodes) : n \in Descendants(n)
    /\ FindPathsRun(gnodes, pureArg).calls > Len(gnodes)

----------------------------------------------------------------------------
(* The cache keys of the four operations, under SpecKeys *)

\* the operation whose cache.Set made the entry under the key: its value type
\* and its ttl tell the four apart
StoredBy(k) == {op \in Ops : TypeOf(op) = hist[k].value.type /\ TTLOf(op) = hist[k].ttl}

\* C35 as stated: cache entries of the four operations never interfere: for
\* all module paths and version strings, latest, list and versions that end in
\* .mod among them, a call served from the cache gets a value that the same
\* operation stored, and a cached value of another operation's type is a miss.
C35_EntriesApart ==
    (ev.kind = "Call" /\ ev.hit) =>
        /\ ev.val.type = TypeOf(ev.op)
        /\ StoredBy(CacheKey(Request(ev.op, ev.path, ev.ver))) = {ev.op}

----------------------------------------------------------------------------
(* Waiting at the admission gate, under SpecGateLive *)

\* the call that has waited longest at the gate leaves it: it holds a slot, or
\* it was woken by its context
HeadLeaves ==
    /\ sendq # << >>
    /\ sendq' = Tail(sendq)
    /\ \/ BagIn([Head(sendq) EXCEPT !.pc = "admitted"], calls')
       \/ BagIn(SelectDone(Head(sendq)), calls')

\* a call woken by its context returns its cancellation error
WokenReturns ==
    \E c \in WithPc("woken") : calls' = calls (-) SetToBag({c}) /\ ev' = WokenReturn(c)

\* C39: no fetch waits at the admission gate for ever: with every HTTP call
\* completing and fair scheduling, the gate's queue is served in order without
\* end: again and again the queue is empty or its first call leaves it,
\* admitted or woken by its cancellation, so every blocked call gets to the
\* head and leaves; and a call woken by its cancellation returns its error.
C39_GateServesWaiters ==
    /\ []<>(sendq = << >>) \/ []<><<HeadLeaves>>_vars
    /\ []<>(WithPc("woken") = {}) \/ []<><<WokenReturns>>_vars

\* a call is blocked at the gate behind a full set of slots
C39_Witness == Len(sendq) >= 1 /\ sem = defaultMaxConcurrent /\ InFlight >= 1

----------------------------------------------------------------------------
(* The parallel fetch of the outdated command, under SpecFetch *)

\* the tasks whose requirement belongs in the result
Reported ==
    {i \in FetchTasks :
        /\ fetch.tasks[i].outcome \notin {"", "err", "none"}
        /\ fetch.MajorOnly => fetch.tasks[i].outcome = "major"}

\* the progress values a task has sent
SentBy(i) == {k \in 1 .. Len(fetch.sent) : fetch.sent[k].task = i}

\* C32: fetchPackages starts one task per requirement and returns only after
\* every task has finished; a task sends one progress value, whether its fetch
\* succeeded, failed or was filtered out, and never a second; the values sent
\* are 1, 2, ..., N in this order; a task that has not finished can always
\* take its next step or waits for the mutex that a task able to step holds,
\* and a task at its send finds room in the channel; and the returned list
\* holds, once each, exactly the requirements whose fetch succeeded with an
\* update type other than none, and major when MajorOnly is set.
C32_FetchPackages ==
    fetch.pc # "idle" =>
        /\ fetch.pc = "returned" => AllDone
        /\ \A i \in FetchTasks :
              /\ Cardinality(SentBy(i)) <= 1
              /\ fetch.tasks[i].pc = "done" <=> Cardinality(SentBy(i)) = 1
        /\ \A k \in 1 .. Len(fetch.sent) : fetch.sent[k].value = k
        /\ AllDone => Len(fetch.sent) = Len(fetch.tasks)
        /\ \A i \in FetchTasks :
              /\ fetch.tasks[i].pc \in {"fetch", "append"} => ENABLED TaskStep
              /\ fetch.tasks[i].pc = "send" => ENABLED TaskSend(i)
              /\ fetch.tasks[i].pc \in {"lockAppend", "lockProgress"} =>
                    \/ ENABLED TaskLock(i)
                    \/ fetch.mu # 0 /\ (ENABLED TaskAppend(fetch.mu) \/ ENABLED TaskSend(fetch.mu))
        /\ fetch.pc = "wait" /\ AllDone => ENABLED FetchReturns
        /\ fetch.pc = "returned" =>
              /\ {fetch.packages[k] : k \in 1 .. Len(fetch.packages)} = Reported
              /\ Len(fetch.packages) = Cardinality(Reported)

\* fetchPackages has returned for three requirements, one whose fetch failed,
\* one that is up to date and one with an update, with no value taken from the
\* channel yet
C32_Witness ==
    /\ fetch.pc = "returned"
    /\ Len(fetch.tasks) = MaxTasks
    /\ Len(fetch.progressCh) = MaxTasks
    /\ \E i, j, k \in FetchTasks :
          /\ fetch.tasks[i].outcome = "err"
          /\ fetch.tasks[j].outcome = "none"
          /\ fetch.tasks[k].outcome = "minor"
    /\ Len(fetch.packages) = 1

----------------------------------------------------------------------------
(* The audit table's grouping, under SpecAudit *)

\* how often the vulnerability stands in the list
Occurrences(vulns, v) == Cardinality({i \in 1 .. Len(vulns) : vulns[i] = v})

RECURSIVE SumCounts(_)
SumCounts(rows) == IF rows = << >> THEN 0 ELSE Head(rows).count + SumCounts(Tail(rows))

RECURSIVE PrintedTimes(_, _)
\* how often the vulnerability is printed in the sections
PrintedTimes(sections, v) ==
    IF sections = << >> THEN 0
    ELSE Occurrences(Head(sections).items, v) + PrintedTimes(Tail(sections), v)

\* C34 as stated: the audit table groups the findings by severity and loses
\* none: every vulnerability given to outputTable is printed under exactly
\* one severity heading, and the counts of the summary add up to the total
\* printed, for every severity string the scanner can produce.
C34_TableLosesNothing ==
    (pureFn = "outputTable" /\ pureRes.done /\ ~pureRes.out.none) =>
        /\ \A v \in AuditVulns :
              PrintedTimes(pureRes.out.sections, v) = Occurrences(pureArg, v)
        /\ SumCounts(pureRes.out.summary) = pureRes.out.total
        /\ SumCounts(pureRes.out.sections) = pureRes.out.total

=============================================================================
